---- MODULE Spec2Model ----
(***************************************************************************)
(* Model of the cursor-based BinaryWriter (src/writer.ts) and BinaryReader *)
(* (src/mod.ts, lines 15-338) of binaryseeker.                             *)
(*                                                                         *)
(* Representation choices                                                  *)
(*  - A Uint8Array is a record [byteLength, nz]: its allocated length and  *)
(*    the function from the indices holding a non-zero byte to that byte.  *)
(*    Every other index below byteLength holds 0.  The representation is   *)
(*    canonical (no zero is ever stored in nz), so record equality is      *)
(*    array equality.                                                      *)
(*  - An integer argument (a JS number or bigint) is a record [neg, limbs] *)
(*    in sign-magnitude form, the magnitude being four base-65536 limbs,   *)
(*    least significant first.  This keeps 32-bit and 64-bit values exact. *)
(*  - A text is a sequence of code points; a lone surrogate is a code      *)
(*    point in 55296..57343.                                               *)
(***************************************************************************)
EXTENDS Integers, Sequences, FiniteSets, TLC

VARIABLES
    data,       \* writer: #data, the backing Uint8Array
    cursor,     \* writer: #cursor
    maxCursor,  \* writer: #maxCursor
    last,       \* the last writer call: its name, arguments, pre-state, outcome
    exported,   \* the array returned by the last toUint8Array() call
    aliased,    \* that array is a view of the buffer #data is a view of
    covered,    \* history: the indices some write has stored a byte at
    reached,    \* history: the greatest position a write ended at or a seek went to
    writeEnd,   \* history: the greatest end position of a write
    nops,       \* number of writer calls made so far
    trace,      \* history: the constructor call and the writer calls made, in order
    rdata,      \* reader: the buffer #data views (the source)
    rcursor,    \* reader: #cursor
    rlast,      \* the last reader call: its name, pre-state, result and outcome
    rnops       \* number of reader calls made so far

vars == <<data, cursor, maxCursor, last, exported, aliased, covered, reached, writeEnd,
          nops, trace, rdata, rcursor, rlast, rnops>>

wvars == <<data, cursor, maxCursor, last, exported, aliased, covered, reached, writeEnd,
           nops, trace>>
rvars == <<rdata, rcursor, rlast, rnops>>

----------------------------------------------------------------------------
(* Bounds of the model *)

MaxOps == 3
MaxReads == 1
MaxTextLen == 2

----------------------------------------------------------------------------
(* Generic helpers *)

Max(a, b) == IF a >= b THEN a ELSE b
Min(a, b) == IF a <= b THEN a ELSE b

Reverse(s) == [i \in 1..Len(s) |-> s[Len(s) + 1 - i]]

EmptyFcn == [i \in {} |-> 0]

----------------------------------------------------------------------------
(* Uint8Array *)

\* new Uint8Array(length): zero-filled
NewUint8Array(length) == [byteLength |-> length, nz |-> EmptyFcn]

\* array[i] for an index inside the array
ByteAt(d, i) == IF i \in DOMAIN d.nz THEN d.nz[i] ELSE 0

\* the bytes stored at offset .. offset + Len(bytes) - 1 (all inside the array)
StoreBytes(d, offset, bytes) ==
    LET range == offset .. (offset + Len(bytes) - 1)
        keep  == DOMAIN d.nz \ range
        put   == {j \in range : bytes[j - offset + 1] # 0}
    IN  [d EXCEPT !.nz = [j \in keep \cup put |->
                             IF j \in range THEN bytes[j - offset + 1] ELSE d.nz[j]]]

\* array[i] = b : an index outside the array is ignored
IndexSet(d, i, b) ==
    IF i < 0 \/ i >= d.byteLength THEN d ELSE StoreBytes(d, i, <<b % 256>>)

\* array.set(bytes, offset): RangeError when the source does not fit
TypedArraySet(d, bytes, offset) ==
    IF offset < 0 \/ offset + Len(bytes) > d.byteLength
    THEN [err |-> "RangeError", data |-> d]
    ELSE [err |-> "none", data |-> StoreBytes(d, offset, bytes)]

\* array.slice(begin, end) for 0 <= begin: end is clamped to the length
Slice(d, begin, end) ==
    LET stop == Min(end, d.byteLength)
        from == {j \in DOMAIN d.nz : j >= begin /\ j < stop}
    IN  [byteLength |-> Max(stop - begin, 0),
         nz |-> [j \in {k - begin : k \in from} |-> d.nz[j + begin]]]

\* the array holding the bytes of a sequence
FromBytes(bytes) == StoreBytes(NewUint8Array(Len(bytes)), 0, bytes)

\* the bytes of an array, in order
ToBytes(d) == [i \in 1..d.byteLength |-> ByteAt(d, i - 1)]

----------------------------------------------------------------------------
(* Integer arguments and their two's complement encodings *)

\* the number n, for |n| < 2^31
Num(n) ==
    LET m == IF n < 0 THEN 0 - n ELSE n
    IN  [neg |-> n < 0, limbs |-> <<m % 65536, m \div 65536, 0, 0>>]

\* the number +-(l3 l2 l1 l0) in base 65536
Big(neg, l3, l2, l1, l0) == [neg |-> neg, limbs |-> <<l0, l1, l2, l3>>]

RECURSIVE Inc(_, _)
\* ls + 1 modulo 65536^Len(ls), the carry entering at limb i
Inc(ls, i) ==
    IF i > Len(ls) THEN ls
    ELSE IF ls[i] = 65535 THEN Inc([ls EXCEPT ![i] = 0], i + 1)
    ELSE [ls EXCEPT ![i] = ls[i] + 1]

\* 65536^Len(ls) - ls modulo 65536^Len(ls)
Negate(ls) == Inc([i \in 1..Len(ls) |-> 65535 - ls[i]], 1)

\* ToUint16 / ToUint32 / BigInt.asUintN(64): v modulo 2^(16 * nl), as nl limbs
ToUintLimbs(v, nl) ==
    LET low == SubSeq(v.limbs, 1, nl)
    IN  IF v.neg THEN Negate(low) ELSE low

Pad4(ls) == [i \in 1..4 |-> IF i <= Len(ls) THEN ls[i] ELSE 0]

\* the bytes of a value of `size` bytes (1, 2, 4 or 8), in the given byte order
NumericToRawBytes(v, size, littleEndian) ==
    LET le == IF size = 1
              THEN <<ToUintLimbs(v, 1)[1] % 256>>
              ELSE LET ls == ToUintLimbs(v, size \div 2)
                   IN  [i \in 1..size |->
                          IF i % 2 = 1 THEN ls[(i + 1) \div 2] % 256
                                       ELSE ls[i \div 2] \div 256]
    IN  IF littleEndian THEN le ELSE Reverse(le)

\* the value of 1, 2, 4 or 8 bytes read in the given byte order
RawBytesToNumeric(bytes, signed, littleEndian) ==
    LET le == IF littleEndian THEN bytes ELSE Reverse(bytes)
        n  == Len(bytes)
    IN  IF n = 1
        THEN IF signed /\ le[1] >= 128
             THEN [neg |-> TRUE, limbs |-> <<256 - le[1], 0, 0, 0>>]
             ELSE [neg |-> FALSE, limbs |-> <<le[1], 0, 0, 0>>]
        ELSE LET ls == [i \in 1..(n \div 2) |-> le[2 * i - 1] + 256 * le[2 * i]]
             IN  IF signed /\ ls[n \div 2] >= 32768
                 THEN [neg |-> TRUE, limbs |-> Pad4(Negate(ls))]
                 ELSE [neg |-> FALSE, limbs |-> Pad4(ls)]

----------------------------------------------------------------------------
(* IEEE-754 bit patterns of the float arguments used by the model *)

\* the binary32 bit pattern of f (setFloat32 stores these bits)
Float32Bits(f) ==
    CASE f = "0"   -> Big(FALSE, 0, 0, 0, 0)
      [] f = "1.5" -> Big(FALSE, 0, 0, 16320, 0)
      [] f = "-2"  -> Big(FALSE, 0, 0, 49152, 0)

\* the binary64 bit pattern of f (setFloat64 stores these bits)
Float64Bits(f) ==
    CASE f = "0"   -> Big(FALSE, 0, 0, 0, 0)
      [] f = "1.5" -> Big(FALSE, 16376, 0, 0, 0)
      [] f = "-2"  -> Big(FALSE, 49152, 0, 0, 0)

----------------------------------------------------------------------------
(* UTF-8: TextEncoder.encode and TextDecoder.decode *)

IsSurrogate(c) == c >= 55296 /\ c <= 57343

\* the UTF-8 bytes of one code point; a lone surrogate is encoded as U+FFFD
EncodeCodePoint(c) ==
    IF c < 128 THEN <<c>>
    ELSE IF c < 2048 THEN <<192 + (c \div 64), 128 + (c % 64)>>
    ELSE IF IsSurrogate(c) THEN <<239, 191, 189>>
    ELSE IF c < 65536
         THEN <<224 + (c \div 4096), 128 + ((c \div 64) % 64), 128 + (c % 64)>>
    ELSE <<240 + (c \div 262144), 128 + ((c \div 4096) % 64),
           128 + ((c \div 64) % 64), 128 + (c % 64)>>

RECURSIVE TextEncode(_)
\* new TextEncoder().encode(text)
TextEncode(text) ==
    IF text = <<>> THEN <<>>
    ELSE EncodeCodePoint(Head(text)) \o TextEncode(Tail(text))

RECURSIVE Utf8Decode(_, _, _, _, _, _, _, _)
\* the UTF-8 decoder of the Encoding Standard in replacement mode: cp is the
\* code point being assembled, needed / seen count its continuation bytes and
\* lower..upper is the range the next continuation byte must lie in
Utf8Decode(bytes, i, cp, needed, seen, lower, upper, out) ==
    IF i > Len(bytes)
    THEN IF needed # 0 THEN Append(out, 65533) ELSE out
    ELSE LET b == bytes[i] IN
         IF needed = 0
         THEN IF b <= 127 THEN Utf8Decode(bytes, i + 1, 0, 0, 0, 128, 191, Append(out, b))
              ELSE IF b >= 194 /\ b <= 223
                   THEN Utf8Decode(bytes, i + 1, b - 192, 1, 0, 128, 191, out)
              ELSE IF b >= 224 /\ b <= 239
                   THEN Utf8Decode(bytes, i + 1, b - 224, 2, 0,
                                   IF b = 224 THEN 160 ELSE 128,
                                   IF b = 237 THEN 159 ELSE 191, out)
              ELSE IF b >= 240 /\ b <= 244
                   THEN Utf8Decode(bytes, i + 1, b - 240, 3, 0,
                                   IF b = 240 THEN 144 ELSE 128,
                                   IF b = 244 THEN 143 ELSE 191, out)
              ELSE Utf8Decode(bytes, i + 1, 0, 0, 0, 128, 191, Append(out, 65533))
         ELSE IF b < lower \/ b > upper
              THEN Utf8Decode(bytes, i, 0, 0, 0, 128, 191, Append(out, 65533))
              ELSE IF seen + 1 = needed
                   THEN Utf8Decode(bytes, i + 1, 0, 0, 0, 128, 191,
                                   Append(out, cp * 64 + (b - 128)))
                   ELSE Utf8Decode(bytes, i + 1, cp * 64 + (b - 128), needed,
                                   seen + 1, 128, 191, out)

\* new TextDecoder().decode(bytes): UTF-8, not fatal, ignoreBOM false, so a
\* leading byte order mark is removed from the result
TextDecode(bytes) ==
    LET out == Utf8Decode(bytes, 1, 0, 0, 0, 128, 191, <<>>)
    IN  IF out # <<>> /\ out[1] = 65279 THEN Tail(out) ELSE out

----------------------------------------------------------------------------
(* BinaryWriter: private methods.  A writer is a record                    *)
(* [data, cursor, maxCursor, err, ret]: the three fields, the exception    *)
(* the call in progress has thrown ("none" when none) and its return       *)
(* value.                                                                  *)

\* DataView.prototype.set<Type>(byteOffset, value, littleEndian), the value
\* given by its bytes: RangeError when the bytes do not fit in the view
DataViewSet(d, byteOffset, bytes) ==
    IF byteOffset < 0 \/ byteOffset + Len(bytes) > d.byteLength
    THEN [err |-> "RangeError", data |-> d]
    ELSE [err |-> "none", data |-> StoreBytes(d, byteOffset, bytes)]

\* extendBuffer that adopts the new array without copying the old bytes into it
extendBufferNoCopy(w, length) ==
    IF length < 0 \/ w.data.byteLength > length
    THEN [w EXCEPT !.err = "RangeError"]
    ELSE [w EXCEPT !.data = NewUint8Array(length)]

\* extendBuffer(length): a new zero-filled array holding the old bytes
extendBuffer(w, length) ==
    IF length < 0 \/ w.data.byteLength > length
    THEN [w EXCEPT !.err = "RangeError"]
    ELSE [w EXCEPT !.data = [byteLength |-> length, nz |-> w.data.nz]]

\* preWrite without the override of a candidate that is still too small
preWriteNoOverride(w, size) ==
    IF w.cursor + size > w.data.byteLength
    THEN extendBuffer(w, IF w.data.byteLength >= 2048
                         THEN w.data.byteLength + 2048
                         ELSE w.data.byteLength * 2)
    ELSE w

\* preWrite that doubles the capacity whatever its size
preWriteAlwaysDouble(w, size) ==
    IF w.cursor + size > w.data.byteLength
    THEN LET grown == w.data.byteLength * 2
         IN  extendBuffer(w, IF w.cursor + size > grown THEN w.cursor + size ELSE grown)
    ELSE w

\* preWrite whose growth check is off by one
preWriteOffByOne(w, size) ==
    IF w.cursor + size > w.data.byteLength + 1
    THEN LET grown   == IF w.data.byteLength >= 2048
                        THEN w.data.byteLength + 2048
                        ELSE w.data.byteLength * 2
             newSize == IF w.cursor + size > grown THEN w.cursor + size ELSE grown
         IN  extendBuffer(w, newSize)
    ELSE w

\* preWrite(size): allocate more space in the buffer, if needed
preWrite(w, size) ==
    IF w.cursor + size > w.data.byteLength
    THEN LET grown   == IF w.data.byteLength >= 2048
                        THEN w.data.byteLength + 2048
                        ELSE w.data.byteLength * 2
             newSize == IF w.cursor + size > grown THEN w.cursor + size ELSE grown
         IN  extendBuffer(w, newSize)
    ELSE w

\* postWrite that raises the high-water mark only after bytes were written
postWriteUnlessEmpty(w, size) ==
    LET c == w.cursor + size
    IN  [w EXCEPT !.cursor = c,
                  !.maxCursor = IF size > 0 /\ c > w.maxCursor THEN c ELSE w.maxCursor]

\* postWrite(size): update the cursor after writing to the buffer
postWrite(w, size) ==
    LET c == w.cursor + size
    IN  [w EXCEPT !.cursor = c,
                  !.maxCursor = IF c > w.maxCursor THEN c ELSE w.maxCursor]

\* the writer after the statement that stores into the buffer
Stored(w, r) == [w EXCEPT !.data = r.data, !.err = r.err]

\* the rest of a method body, skipped when a statement before it has thrown
Then(w, size) == IF w.err # "none" THEN w ELSE postWrite(w, size)

----------------------------------------------------------------------------
(* BinaryWriter: public methods *)

\* new BinaryWriter(initialSize)
NewWriter(initialSize) ==
    [data |-> NewUint8Array(initialSize), cursor |-> 0, maxCursor |-> 0,
     err |-> "none", ret |-> "void", retBuffer |-> "none"]

\* seek that moves the cursor without the opening preWrite
seekNoPreWrite(w, offset) == postWrite([w EXCEPT !.cursor = offset], 0)

\* seek that moves the cursor without the closing postWrite(0)
seekNoPostWrite(w, offset) ==
    LET w1 == preWrite(w, offset - w.cursor)
    IN  IF w1.err # "none" THEN w1 ELSE [w1 EXCEPT !.cursor = offset]

\* seek(offset)
seek(w, offset) ==
    LET w1 == preWrite(w, offset - w.cursor)
    IN  IF w1.err # "none" THEN w1
        ELSE postWrite([w1 EXCEPT !.cursor = offset], 0)

\* writeUInt8(value): view.setUint8(cursor, value)
writeUInt8(w, value) ==
    LET w1 == preWrite(w, 1)
    IN  Then(Stored(w1, DataViewSet(w1.data, w1.cursor, NumericToRawBytes(value, 1, TRUE))), 1)

\* writeInt8 storing at the cursor without the preWrite that makes room
writeInt8NoPreWrite(w, value) ==
    Then([w EXCEPT !.data = IndexSet(w.data, w.cursor,
                                     NumericToRawBytes(value, 1, TRUE)[1])], 1)

\* writeInt8(value): data[cursor] = value
writeInt8(w, value) ==
    LET w1 == preWrite(w, 1)
    IN  Then([w1 EXCEPT !.data = IndexSet(w1.data, w1.cursor,
                                          NumericToRawBytes(value, 1, TRUE)[1])], 1)

\* writeUInt32LE(value): view.setUint32(cursor, value, true)
writeUInt32LE(w, value) ==
    LET w1 == preWrite(w, 4)
    IN  Then(Stored(w1, DataViewSet(w1.data, w1.cursor, NumericToRawBytes(value, 4, TRUE))), 4)

\* writeUInt32BE passing true as the littleEndian flag
writeUInt32BEAsLE(w, value) ==
    LET w1 == preWrite(w, 4)
    IN  Then(Stored(w1, DataViewSet(w1.data, w1.cursor, NumericToRawBytes(value, 4, TRUE))), 4)

\* writeUInt32BE(value): view.setUint32(cursor, value, false)
writeUInt32BE(w, value) ==
    LET w1 == preWrite(w, 4)
    IN  Then(Stored(w1, DataViewSet(w1.data, w1.cursor, NumericToRawBytes(value, 4, FALSE))), 4)

\* writeUInt16LE(value): view.setUint16(cursor, value, true)
writeUInt16LE(w, value) ==
    LET w1 == preWrite(w, 2)
    IN  Then(Stored(w1, DataViewSet(w1.data, w1.cursor, NumericToRawBytes(value, 2, TRUE))), 2)

\* writeUInt16BE storing with setUint32: four bytes stored, the cursor moved by two
writeUInt16BEWide(w, value) ==
    LET w1 == preWrite(w, 2)
    IN  Then(Stored(w1, DataViewSet(w1.data, w1.cursor, NumericToRawBytes(value, 4, FALSE))), 2)

\* writeUInt16BE(value): view.setUint16(cursor, value, false)
writeUInt16BE(w, value) ==
    LET w1 == preWrite(w, 2)
    IN  Then(Stored(w1, DataViewSet(w1.data, w1.cursor, NumericToRawBytes(value, 2, FALSE))), 2)

\* writeInt32LE(value): view.setInt32(cursor, value, true)
writeInt32LE(w, value) ==
    LET w1 == preWrite(w, 4)
    IN  Then(Stored(w1, DataViewSet(w1.data, w1.cursor, NumericToRawBytes(value, 4, TRUE))), 4)

\* writeInt32BE(value): view.setInt32(cursor, value, false)
writeInt32BE(w, value) ==
    LET w1 == preWrite(w, 4)
    IN  Then(Stored(w1, DataViewSet(w1.data, w1.cursor, NumericToRawBytes(value, 4, FALSE))), 4)

\* writeInt16LE(value): view.setInt16(cursor, value, true)
writeInt16LE(w, value) ==
    LET w1 == preWrite(w, 2)
    IN  Then(Stored(w1, DataViewSet(w1.data, w1.cursor, NumericToRawBytes(value, 2, TRUE))), 2)

\* writeInt16BE(value): view.setInt16(cursor, value, false)
writeInt16BE(w, value) ==
    LET w1 == preWrite(w, 2)
    IN  Then(Stored(w1, DataViewSet(w1.data, w1.cursor, NumericToRawBytes(value, 2, FALSE))), 2)

\* writeUInt64LE(value): view.setBigUint64(cursor, value, true)
writeUInt64LE(w, value) ==
    LET w1 == preWrite(w, 8)
    IN  Then(Stored(w1, DataViewSet(w1.data, w1.cursor, NumericToRawBytes(value, 8, TRUE))), 8)

\* writeUInt64BE(value): view.setBigUint64(cursor, value, false)
writeUInt64BE(w, value) ==
    LET w1 == preWrite(w, 8)
    IN  Then(Stored(w1, DataViewSet(w1.data, w1.cursor, NumericToRawBytes(value, 8, FALSE))), 8)

\* writeInt64LE(value): view.setBigInt64(cursor, value, true)
writeInt64LE(w, value) ==
    LET w1 == preWrite(w, 8)
    IN  Then(Stored(w1, DataViewSet(w1.data, w1.cursor, NumericToRawBytes(value, 8, TRUE))), 8)

\* writeInt64BE(value): view.setBigInt64(cursor, value, false)
writeInt64BE(w, value) ==
    LET w1 == preWrite(w, 8)
    IN  Then(Stored(w1, DataViewSet(w1.data, w1.cursor, NumericToRawBytes(value, 8, FALSE))), 8)

\* writeFloat32LE(value): view.setFloat32(cursor, value, true)
writeFloat32LE(w, value) ==
    LET w1 == preWrite(w, 4)
    IN  Then(Stored(w1, DataViewSet(w1.data, w1.cursor, NumericToRawBytes(Float32Bits(value), 4, TRUE))), 4)

\* writeFloat64LE(value): view.setFloat64(cursor, value, true)
writeFloat64LE(w, value) ==
    LET w1 == preWrite(w, 8)
    IN  Then(Stored(w1, DataViewSet(w1.data, w1.cursor, NumericToRawBytes(Float64Bits(value), 8, TRUE))), 8)

\* writeFloat32BE(value): view.setFloat32(cursor, value, false)
writeFloat32BE(w, value) ==
    LET w1 == preWrite(w, 4)
    IN  Then(Stored(w1, DataViewSet(w1.data, w1.cursor, NumericToRawBytes(Float32Bits(value), 4, FALSE))), 4)

\* writeFloat64BE(value): view.setFloat64(cursor, value, false)
writeFloat64BE(w, value) ==
    LET w1 == preWrite(w, 8)
    IN  Then(Stored(w1, DataViewSet(w1.data, w1.cursor, NumericToRawBytes(Float64Bits(value), 8, FALSE))), 8)

\* writeFloat32(value): alias for writeFloat32LE
writeFloat32(w, value) == writeFloat32LE(w, value)

\* writeFloat64(value): alias for writeFloat64LE
writeFloat64(w, value) == writeFloat64LE(w, value)

RECURSIVE IndexSetAllShifted(_, _, _, _)
\* the loop storing each byte one index too far
IndexSetAllShifted(d, offset, bytes, from) ==
    IF from > Len(bytes) THEN d
    ELSE IndexSetAllShifted(IndexSet(d, offset + from, bytes[from]), offset, bytes, from + 1)

RECURSIVE IndexSetAll(_, _, _, _)
\* for (i = from - 1; i < bytes.length; i++) data[offset + i] = bytes[i]
IndexSetAll(d, offset, bytes, from) ==
    IF from > Len(bytes) THEN d
    ELSE IndexSetAll(IndexSet(d, offset + from - 1, bytes[from]), offset, bytes, from + 1)

\* writeString advancing the cursor by the encoded length only
writeStringShortAdvance(w, value) ==
    LET bytes == TextEncode(value)
        w1    == preWrite(w, Len(bytes) + 1)
        d1    == IndexSetAll(w1.data, w1.cursor, bytes, 1)
        d2    == IndexSet(d1, w1.cursor + Len(bytes), 0)
    IN  Then([w1 EXCEPT !.data = d2], Len(bytes))

\* writeString(value): the UTF-8 bytes of value, then a zero byte
writeString(w, value) ==
    LET bytes == TextEncode(value)
        w1    == preWrite(w, Len(bytes) + 1)
        d1    == IndexSetAll(w1.data, w1.cursor, bytes, 1)
        d2    == IndexSet(d1, w1.cursor + Len(bytes), 0)
    IN  Then([w1 EXCEPT !.data = d2], Len(bytes) + 1)

\* writeBytes(value): data.set(value, cursor)
writeBytes(w, value) ==
    LET w1 == preWrite(w, Len(value))
    IN  Then(Stored(w1, TypedArraySet(w1.data, value, w1.cursor)), Len(value))

\* writeChars(value): the UTF-8 bytes of value, no terminator
writeChars(w, value) ==
    LET bytes == TextEncode(value)
        w1    == preWrite(w, Len(bytes))
    IN  Then([w1 EXCEPT !.data = IndexSetAll(w1.data, w1.cursor, bytes, 1)], Len(bytes))

\* toUint8Array slicing up to the cursor instead of the high-water mark
toUint8ArrayUpToCursor(w) == [w EXCEPT !.ret = Slice(w.data, 0, w.cursor), !.retBuffer = "own"]

\* toUint8Array returning data.subarray(0, maxCursor), a view of the writer's buffer
toUint8ArrayView(w) == [w EXCEPT !.ret = Slice(w.data, 0, w.maxCursor), !.retBuffer = "data"]

\* toUint8Array(): Uint8Array.from(data.slice(0, maxCursor)); slice() copies
\* the bytes into a buffer of the returned array's own
toUint8Array(w) == [w EXCEPT !.ret = Slice(w.data, 0, w.maxCursor), !.retBuffer = "own"]

\* ensureSize resizing the buffer to the size asked for, smaller or greater
ensureSizeExact(w, size) ==
    LET kept == {j \in DOMAIN w.data.nz : j < size}
    IN  [w EXCEPT !.data = [byteLength |-> size, nz |-> [j \in kept |-> w.data.nz[j]]],
                  !.ret = size]

\* ensureSize returning the size asked for instead of the resulting capacity
ensureSizeReturnsRequest(w, size) ==
    LET w1 == IF w.data.byteLength < size THEN extendBuffer(w, size) ELSE w
    IN  IF w1.err # "none" THEN w1 ELSE [w1 EXCEPT !.ret = size]

\* ensureSize(size)
ensureSize(w, size) ==
    LET w1 == IF w.data.byteLength < size THEN extendBuffer(w, size) ELSE w
    IN  IF w1.err # "none" THEN w1 ELSE [w1 EXCEPT !.ret = w1.data.byteLength]

\* the length getter
getLength(w) == w.maxCursor

\* the capacity getter
getCapacity(w) == w.data.byteLength

\* writer[name](value): the call of a numeric write method given by its name
Invoke(w, name, value) ==
    CASE name = "writeUInt8" -> writeUInt8(w, value)
      [] name = "writeInt8" -> writeInt8(w, value)
      [] name = "writeUInt16LE" -> writeUInt16LE(w, value)
      [] name = "writeUInt16BE" -> writeUInt16BE(w, value)
      [] name = "writeInt16LE" -> writeInt16LE(w, value)
      [] name = "writeInt16BE" -> writeInt16BE(w, value)
      [] name = "writeUInt32LE" -> writeUInt32LE(w, value)
      [] name = "writeUInt32BE" -> writeUInt32BE(w, value)
      [] name = "writeInt32LE" -> writeInt32LE(w, value)
      [] name = "writeInt32BE" -> writeInt32BE(w, value)
      [] name = "writeFloat32LE" -> writeFloat32LE(w, value)
      [] name = "writeFloat32BE" -> writeFloat32BE(w, value)
      [] name = "writeFloat64LE" -> writeFloat64LE(w, value)
      [] name = "writeFloat64BE" -> writeFloat64BE(w, value)
      [] name = "writeUInt64LE" -> writeUInt64LE(w, value)
      [] name = "writeUInt64BE" -> writeUInt64BE(w, value)
      [] name = "writeInt64LE" -> writeInt64LE(w, value)
      [] name = "writeInt64BE" -> writeInt64BE(w, value)

\* writer[call.op](call.arg): one call of a public method, the writer it
\* is made on having no exception and no result pending
Apply(w, call) ==
    LET w0 == [w EXCEPT !.err = "none", !.ret = "void", !.retBuffer = "none"]
    IN  CASE call.op = "seek" -> seek(w0, call.arg)
          [] call.op = "ensureSize" -> ensureSize(w0, call.arg)
          [] call.op = "toUint8Array" -> toUint8Array(w0)
          [] call.op = "writeString" -> writeString(w0, call.arg)
          [] call.op = "writeBytes" -> writeBytes(w0, call.arg)
          [] call.op = "writeChars" -> writeChars(w0, call.arg)
          [] call.op = "writeFloat32" -> writeFloat32(w0, call.arg)
          [] call.op = "writeFloat64" -> writeFloat64(w0, call.arg)
          [] OTHER -> Invoke(w0, call.op, call.arg)

RECURSIVE Replay(_, _, _, _)
\* A writer constructed with initialSize and given the calls 2 .. n of the
\* sequence calls (the first is the constructor's), in order and up to the
\* first that throws; the ensureSize calls among them are made only when
\* withEnsureSize is true.
Replay(calls, n, initialSize, withEnsureSize) ==
    IF n <= 1 THEN NewWriter(initialSize)
    ELSE LET w == Replay(calls, n - 1, initialSize, withEnsureSize)
         IN  IF w.err # "none" THEN w
             ELSE IF calls[n].op = "ensureSize" /\ ~withEnsureSize THEN w
             ELSE Apply(w, calls[n])

\* the value of a parameter declared `endian = "le"`
DefaultLE(endian) == IF endian = "undefined" THEN "le" ELSE endian

\* write(value, kind, endian)
write(w, value, kind, endian) ==
    LET e == DefaultLE(endian)
    IN  CASE kind = "u8" -> writeUInt8(w, value)
          [] kind = "i8" -> writeInt8(w, value)
          [] kind = "u32" -> IF e = "le" THEN writeUInt32LE(w, value) ELSE writeUInt32BE(w, value)
          [] kind = "u16" -> IF e = "le" THEN writeUInt16LE(w, value) ELSE writeUInt16BE(w, value)
          [] kind = "i32" -> IF e = "le" THEN writeInt32LE(w, value) ELSE writeInt32BE(w, value)
          [] kind = "i16" -> IF e = "le" THEN writeInt16LE(w, value) ELSE writeInt16BE(w, value)
          [] kind = "f32" -> IF e = "le" THEN writeFloat32LE(w, value) ELSE writeFloat32BE(w, value)
          [] kind = "f64" -> IF e = "le" THEN writeFloat64LE(w, value) ELSE writeFloat64BE(w, value)
          [] OTHER -> [w EXCEPT !.err = "Error"]

----------------------------------------------------------------------------
(* BinaryReader.  A reader is a record [data, cursor, err, ret]: the       *)
(* source buffer, the cursor, the exception the call in progress has       *)
(* thrown ("none" when none) and its return value.                         *)

\* DataView.prototype.get<Type>(byteOffset, littleEndian): the `size` bytes at
\* byteOffset, RangeError when they are not all inside the view
DataViewGet(d, byteOffset, size) ==
    IF byteOffset < 0 \/ byteOffset + size > d.byteLength
    THEN [err |-> "RangeError", bytes |-> <<>>]
    ELSE [err |-> "none", bytes |-> [i \in 1..size |-> ByteAt(d, byteOffset + i - 1)]]

\* new BinaryReader(data)
NewReader(d) == [data |-> d, cursor |-> 0, err |-> "none", ret |-> "void"]

\* seek(offset)
readerSeek(r, offset) == [r EXCEPT !.cursor = offset]

\* readUInt8(): data.getUint8(cursor)
readUInt8(r) ==
    LET g == DataViewGet(r.data, r.cursor, 1)
    IN  IF g.err # "none" THEN [r EXCEPT !.err = g.err]
        ELSE [r EXCEPT !.cursor = r.cursor + 1,
                       !.ret = RawBytesToNumeric(g.bytes, FALSE, TRUE)]

\* readInt8(): data.getInt8(cursor)
readInt8(r) ==
    LET g == DataViewGet(r.data, r.cursor, 1)
    IN  IF g.err # "none" THEN [r EXCEPT !.err = g.err]
        ELSE [r EXCEPT !.cursor = r.cursor + 1,
                       !.ret = RawBytesToNumeric(g.bytes, TRUE, TRUE)]

\* readUInt64LE(): data.getBigUint64(cursor, true)
readUInt64LE(r) ==
    LET g == DataViewGet(r.data, r.cursor, 8)
    IN  IF g.err # "none" THEN [r EXCEPT !.err = g.err]
        ELSE [r EXCEPT !.cursor = r.cursor + 8,
                       !.ret = RawBytesToNumeric(g.bytes, FALSE, TRUE)]

\* readUInt32LE leaving out the littleEndian flag of getUint32
readUInt32LENoFlag(r) ==
    LET g == DataViewGet(r.data, r.cursor, 4)
    IN  IF g.err # "none" THEN [r EXCEPT !.err = g.err]
        ELSE [r EXCEPT !.cursor = r.cursor + 4,
                       !.ret = RawBytesToNumeric(g.bytes, FALSE, FALSE)]

\* readUInt32LE(): data.getUint32(cursor, true)
readUInt32LE(r) ==
    LET g == DataViewGet(r.data, r.cursor, 4)
    IN  IF g.err # "none" THEN [r EXCEPT !.err = g.err]
        ELSE [r EXCEPT !.cursor = r.cursor + 4,
                       !.ret = RawBytesToNumeric(g.bytes, FALSE, TRUE)]

\* readUInt16LE(): data.getUint16(cursor, true)
readUInt16LE(r) ==
    LET g == DataViewGet(r.data, r.cursor, 2)
    IN  IF g.err # "none" THEN [r EXCEPT !.err = g.err]
        ELSE [r EXCEPT !.cursor = r.cursor + 2,
                       !.ret = RawBytesToNumeric(g.bytes, FALSE, TRUE)]

\* readInt64LE decoding with getBigUint64
readInt64LEUnsigned(r) ==
    LET g == DataViewGet(r.data, r.cursor, 8)
    IN  IF g.err # "none" THEN [r EXCEPT !.err = g.err]
        ELSE [r EXCEPT !.cursor = r.cursor + 8,
                       !.ret = RawBytesToNumeric(g.bytes, FALSE, TRUE)]

\* readInt64LE(): data.getBigInt64(cursor, true)
readInt64LE(r) ==
    LET g == DataViewGet(r.data, r.cursor, 8)
    IN  IF g.err # "none" THEN [r EXCEPT !.err = g.err]
        ELSE [r EXCEPT !.cursor = r.cursor + 8,
                       !.ret = RawBytesToNumeric(g.bytes, TRUE, TRUE)]

\* readInt32LE(): data.getInt32(cursor, true)
readInt32LE(r) ==
    LET g == DataViewGet(r.data, r.cursor, 4)
    IN  IF g.err # "none" THEN [r EXCEPT !.err = g.err]
        ELSE [r EXCEPT !.cursor = r.cursor + 4,
                       !.ret = RawBytesToNumeric(g.bytes, TRUE, TRUE)]

\* readInt16LE(): data.getInt16(cursor, true)
readInt16LE(r) ==
    LET g == DataViewGet(r.data, r.cursor, 2)
    IN  IF g.err # "none" THEN [r EXCEPT !.err = g.err]
        ELSE [r EXCEPT !.cursor = r.cursor + 2,
                       !.ret = RawBytesToNumeric(g.bytes, TRUE, TRUE)]

\* readUInt64BE(): data.getBigUint64(cursor, false)
readUInt64BE(r) ==
    LET g == DataViewGet(r.data, r.cursor, 8)
    IN  IF g.err # "none" THEN [r EXCEPT !.err = g.err]
        ELSE [r EXCEPT !.cursor = r.cursor + 8,
                       !.ret = RawBytesToNumeric(g.bytes, FALSE, FALSE)]

\* readUInt32BE(): data.getUint32(cursor, false)
readUInt32BE(r) ==
    LET g == DataViewGet(r.data, r.cursor, 4)
    IN  IF g.err # "none" THEN [r EXCEPT !.err = g.err]
        ELSE [r EXCEPT !.cursor = r.cursor + 4,
                       !.ret = RawBytesToNumeric(g.bytes, FALSE, FALSE)]

\* readUInt16BE(): data.getUint16(cursor, false)
readUInt16BE(r) ==
    LET g == DataViewGet(r.data, r.cursor, 2)
    IN  IF g.err # "none" THEN [r EXCEPT !.err = g.err]
        ELSE [r EXCEPT !.cursor = r.cursor + 2,
                       !.ret = RawBytesToNumeric(g.bytes, FALSE, FALSE)]

\* readInt64BE(): data.getBigInt64(cursor, false)
readInt64BE(r) ==
    LET g == DataViewGet(r.data, r.cursor, 8)
    IN  IF g.err # "none" THEN [r EXCEPT !.err = g.err]
        ELSE [r EXCEPT !.cursor = r.cursor + 8,
                       !.ret = RawBytesToNumeric(g.bytes, TRUE, FALSE)]

\* readInt32BE(): data.getInt32(cursor, false)
readInt32BE(r) ==
    LET g == DataViewGet(r.data, r.cursor, 4)
    IN  IF g.err # "none" THEN [r EXCEPT !.err = g.err]
        ELSE [r EXCEPT !.cursor = r.cursor + 4,
                       !.ret = RawBytesToNumeric(g.bytes, TRUE, FALSE)]

\* readInt16BE(): data.getInt16(cursor, false)
readInt16BE(r) ==
    LET g == DataViewGet(r.data, r.cursor, 2)
    IN  IF g.err # "none" THEN [r EXCEPT !.err = g.err]
        ELSE [r EXCEPT !.cursor = r.cursor + 2,
                       !.ret = RawBytesToNumeric(g.bytes, TRUE, FALSE)]

\* readFloat32BE(): data.getFloat32(cursor, false); the result is given by its bit pattern
readFloat32BE(r) ==
    LET g == DataViewGet(r.data, r.cursor, 4)
    IN  IF g.err # "none" THEN [r EXCEPT !.err = g.err]
        ELSE [r EXCEPT !.cursor = r.cursor + 4,
                       !.ret = RawBytesToNumeric(g.bytes, FALSE, FALSE)]

\* readFloat64BE(): data.getFloat64(cursor, false); the result is given by its bit pattern
readFloat64BE(r) ==
    LET g == DataViewGet(r.data, r.cursor, 8)
    IN  IF g.err # "none" THEN [r EXCEPT !.err = g.err]
        ELSE [r EXCEPT !.cursor = r.cursor + 8,
                       !.ret = RawBytesToNumeric(g.bytes, FALSE, FALSE)]

\* readFloat32(): alias for readFloat32BE
readFloat32(r) == readFloat32BE(r)

\* readFloat64(): alias for readFloat64BE
readFloat64(r) == readFloat64BE(r)

\* readFloat32LE(): data.getFloat32(cursor, true); the result is given by its bit pattern
readFloat32LE(r) ==
    LET g == DataViewGet(r.data, r.cursor, 4)
    IN  IF g.err # "none" THEN [r EXCEPT !.err = g.err]
        ELSE [r EXCEPT !.cursor = r.cursor + 4,
                       !.ret = RawBytesToNumeric(g.bytes, FALSE, TRUE)]

\* readFloat64LE(): data.getFloat64(cursor, true); the result is given by its bit pattern
readFloat64LE(r) ==
    LET g == DataViewGet(r.data, r.cursor, 8)
    IN  IF g.err # "none" THEN [r EXCEPT !.err = g.err]
        ELSE [r EXCEPT !.cursor = r.cursor + 8,
                       !.ret = RawBytesToNumeric(g.bytes, FALSE, TRUE)]

\* read taking one byte for a kind it does not know
readOtherAsU8(r, kind, endian) ==
    LET e == DefaultLE(endian)
    IN  CASE kind = "u8" -> readUInt8(r)
          [] kind = "i8" -> readInt8(r)
          [] kind = "u32" -> IF e = "le" THEN readUInt32LE(r) ELSE readUInt32BE(r)
          [] kind = "u16" -> IF e = "le" THEN readUInt16LE(r) ELSE readUInt16BE(r)
          [] kind = "i32" -> IF e = "le" THEN readInt32LE(r) ELSE readInt32BE(r)
          [] kind = "i16" -> IF e = "le" THEN readInt16LE(r) ELSE readInt16BE(r)
          [] kind = "f32" -> IF e = "le" THEN readFloat32LE(r) ELSE readFloat32BE(r)
          [] kind = "f64" -> IF e = "le" THEN readFloat64LE(r) ELSE readFloat64BE(r)
          [] OTHER -> readUInt8(r)

\* read whose endian parameter defaults to "be"
readDefaultBE(r, kind, endian) ==
    LET e == IF endian = "undefined" THEN "be" ELSE endian
    IN  CASE kind = "u8" -> readUInt8(r)
          [] kind = "i8" -> readInt8(r)
          [] kind = "u32" -> IF e = "le" THEN readUInt32LE(r) ELSE readUInt32BE(r)
          [] kind = "u16" -> IF e = "le" THEN readUInt16LE(r) ELSE readUInt16BE(r)
          [] kind = "i32" -> IF e = "le" THEN readInt32LE(r) ELSE readInt32BE(r)
          [] kind = "i16" -> IF e = "le" THEN readInt16LE(r) ELSE readInt16BE(r)
          [] kind = "f32" -> IF e = "le" THEN readFloat32LE(r) ELSE readFloat32BE(r)
          [] kind = "f64" -> IF e = "le" THEN readFloat64LE(r) ELSE readFloat64BE(r)
          [] OTHER -> [r EXCEPT !.err = "Error"]

\* read(kind, endian)
read(r, kind, endian) ==
    LET e == DefaultLE(endian)
    IN  CASE kind = "u8" -> readUInt8(r)
          [] kind = "i8" -> readInt8(r)
          [] kind = "u32" -> IF e = "le" THEN readUInt32LE(r) ELSE readUInt32BE(r)
          [] kind = "u16" -> IF e = "le" THEN readUInt16LE(r) ELSE readUInt16BE(r)
          [] kind = "i32" -> IF e = "le" THEN readInt32LE(r) ELSE readInt32BE(r)
          [] kind = "i16" -> IF e = "le" THEN readInt16LE(r) ELSE readInt16BE(r)
          [] kind = "f32" -> IF e = "le" THEN readFloat32LE(r) ELSE readFloat32BE(r)
          [] kind = "f64" -> IF e = "le" THEN readFloat64LE(r) ELSE readFloat64BE(r)
          [] OTHER -> [r EXCEPT !.err = "Error"]

RECURSIVE readStringLoopToEnd(_, _)
\* the loop of readString taking the end of the buffer for a terminator
readStringLoopToEnd(r, buffer) ==
    LET g == DataViewGet(r.data, r.cursor, 1)
    IN  IF g.err # "none" THEN [r EXCEPT !.ret = TextDecode(buffer)]
        ELSE IF g.bytes[1] = 0
             THEN [r EXCEPT !.cursor = r.cursor + 1, !.ret = TextDecode(buffer)]
             ELSE readStringLoopToEnd([r EXCEPT !.cursor = r.cursor + 1],
                                      Append(buffer, g.bytes[1]))

RECURSIVE readStringLoopRewinds(_, _)
\* the loop of readString giving back the bytes it consumed when it fails
readStringLoopRewinds(r, buffer) ==
    LET g == DataViewGet(r.data, r.cursor, 1)
    IN  IF g.err # "none" THEN [r EXCEPT !.err = g.err, !.cursor = r.cursor - Len(buffer)]
        ELSE IF g.bytes[1] = 0
             THEN [r EXCEPT !.cursor = r.cursor + 1, !.ret = TextDecode(buffer)]
             ELSE readStringLoopRewinds([r EXCEPT !.cursor = r.cursor + 1],
                                        Append(buffer, g.bytes[1]))

RECURSIVE readStringLoopStopsAtTerminator(_, _)
\* the loop of readString leaving the cursor on the terminator it found
readStringLoopStopsAtTerminator(r, buffer) ==
    LET g == DataViewGet(r.data, r.cursor, 1)
    IN  IF g.err # "none" THEN [r EXCEPT !.err = g.err]
        ELSE IF g.bytes[1] = 0
             THEN [r EXCEPT !.ret = TextDecode(buffer)]
             ELSE readStringLoopStopsAtTerminator([r EXCEPT !.cursor = r.cursor + 1],
                                                  Append(buffer, g.bytes[1]))

RECURSIVE readStringLoop(_, _)
\* the loop of readString: one byte per turn until a zero byte is read
readStringLoop(r, buffer) ==
    LET g == DataViewGet(r.data, r.cursor, 1)
    IN  IF g.err # "none" THEN [r EXCEPT !.err = g.err]
        ELSE IF g.bytes[1] = 0
             THEN [r EXCEPT !.cursor = r.cursor + 1, !.ret = TextDecode(buffer)]
             ELSE readStringLoop([r EXCEPT !.cursor = r.cursor + 1],
                                 Append(buffer, g.bytes[1]))

RECURSIVE readStringAccesses(_)
\* the number of getUint8 calls the loop of readString makes from r on: one
\* per turn, the turn that finds the zero byte or throws being the last
readStringAccesses(r) ==
    LET g == DataViewGet(r.data, r.cursor, 1)
    IN  IF g.err # "none" THEN 1
        ELSE IF g.bytes[1] = 0 THEN 1
        ELSE 1 + readStringAccesses([r EXCEPT !.cursor = r.cursor + 1])

\* readString()
readString(r) == readStringLoop(r, <<>>)

\* readBytes advancing the cursor byte by byte, as readString does, so that a
\* failing call has consumed the bytes up to the end of the source
readBytesStepwise(r, length) ==
    IF length < 0 THEN [r EXCEPT !.err = "RangeError"]
    ELSE IF \E i \in 0..(length - 1) : DataViewGet(r.data, r.cursor + i, 1).err # "none"
         THEN [r EXCEPT !.err = "RangeError",
                        !.cursor = IF r.cursor < 0 THEN r.cursor ELSE Max(r.cursor, r.data.byteLength)]
         ELSE [r EXCEPT !.cursor = r.cursor + length,
                        !.ret = Slice(r.data, r.cursor, r.cursor + length)]

\* readBytes taking each byte with an unchecked index (0 beyond the end)
readBytesUnchecked(r, length) ==
    IF length < 0 THEN [r EXCEPT !.err = "RangeError"]
    ELSE [r EXCEPT !.cursor = r.cursor + length,
                   !.ret = FromBytes([i \in 1..length |->
                              IF r.cursor + i - 1 >= 0 /\ r.cursor + i - 1 < r.data.byteLength
                              THEN ByteAt(r.data, r.cursor + i - 1) ELSE 0])]

\* readBytes(length)
readBytes(r, length) ==
    IF length < 0 THEN [r EXCEPT !.err = "RangeError"]
    ELSE IF \E i \in 0..(length - 1) : DataViewGet(r.data, r.cursor + i, 1).err # "none"
         THEN [r EXCEPT !.err = "RangeError"]
         ELSE [r EXCEPT !.cursor = r.cursor + length,
                        !.ret = Slice(r.data, r.cursor, r.cursor + length)]

\* readToEnd returning the whole buffer, the cursor left out of the view
readToEndWhole(r) ==
    IF r.cursor < 0 \/ r.cursor > r.data.byteLength THEN [r EXCEPT !.err = "RangeError"]
    ELSE [r EXCEPT !.cursor = r.data.byteLength,
                   !.ret = Slice(r.data, 0, r.data.byteLength)]

\* readToEnd(): new Uint8Array(buffer, cursor), RangeError when the cursor is
\* negative or past the end
readToEnd(r) ==
    IF r.cursor < 0 \/ r.cursor > r.data.byteLength THEN [r EXCEPT !.err = "RangeError"]
    ELSE [r EXCEPT !.cursor = r.data.byteLength,
                   !.ret = Slice(r.data, r.cursor, r.data.byteLength)]

\* readChars(length)
readChars(r, length) ==
    LET r1 == readBytes(r, length)
    IN  IF r1.err # "none" THEN r1 ELSE [r1 EXCEPT !.ret = TextDecode(ToBytes(r1.ret))]

\* hasMoreData comparing with <= instead of <
hasMoreDataInclusive(r) == r.cursor <= r.data.byteLength

\* the hasMoreData getter
hasMoreData(r) == r.cursor < r.data.byteLength

----------------------------------------------------------------------------
(* Inputs *)

\* initial sizes given to the constructor (256 is the default)
InitialSizes == {0, 2, 256, 2048}

\* offsets given to seek
SeekOffsets == {0, 3, 8, 2048, 4097}

\* sizes given to ensureSize
EnsureSizes == {4, 2049}

\* one argument per typed write, for the runs that study the bookkeeping
U8Core == {Num(1)}
I8Core == {Num(-1)}
U16Core == {Num(4660)}
I16Core == {Num(-2)}
U32Core == {Num(305419896)}
I32Core == {Num(-3)}
U64Core == {Num(1)}
I64Core == {Num(-4)}
FloatCore == {"1.5"}
FloatAll == {"0", "1.5", "-2"}
TextCore == {<<116, 101, 115, 116>>}
CharsCore == {<<>>, <<116, 101>>}
BytesCore == {<<1, 2, 3, 4>>}

\* arguments spanning each integer kind's range, for the runs that study the encodings
U8All == {Num(0), Num(1), Num(18), Num(127), Num(128), Num(255)}
I8All == {Num(-128), Num(-127), Num(-1), Num(0), Num(1), Num(127)}
U16All == {Num(0), Num(1), Num(255), Num(256), Num(4660), Num(32767), Num(32768), Num(65535)}
I16All == {Num(-32768), Num(-32767), Num(-256), Num(-1), Num(0), Num(1), Num(4660), Num(32767)}
U32All == {Num(0), Num(1), Num(65535), Num(65536), Num(305419896), Num(2147483647),
           Big(FALSE, 0, 0, 32768, 0), Big(FALSE, 0, 0, 65535, 65535)}
I32All == {Big(TRUE, 0, 0, 32768, 0), Num(-2147483647), Num(-65536), Num(-1), Num(0), Num(1),
           Num(305419896), Num(2147483647)}
U64All == {Num(0), Num(1), Big(FALSE, 0, 1, 0, 0), Big(FALSE, 291, 17767, 35243, 52719),
           Big(FALSE, 2057, 2571, 3085, 3599), Big(FALSE, 32767, 65535, 65535, 65535),
           Big(FALSE, 32768, 0, 0, 0), Big(FALSE, 65535, 65535, 65535, 65535)}
I64All == {Big(TRUE, 32768, 0, 0, 0), Big(TRUE, 32767, 65535, 65535, 65535),
           Big(TRUE, 0, 1, 0, 0), Num(-1), Num(0), Num(1),
           Big(FALSE, 291, 17767, 35243, 52719), Big(FALSE, 32767, 65535, 65535, 65535)}

\* code points of the texts: NUL, "A", "t", U+00E9, U+3042, the byte order mark
\* U+FEFF, U+1F600 and the lone surrogate U+D800
CodePoints == {0, 65, 116, 233, 12354, 65279, 128512, 55296}

Texts == UNION {[1..n -> CodePoints] : n \in 0..MaxTextLen} \cup {<<116, 101, 115, 116>>}

----------------------------------------------------------------------------
(* The state after construction *)

NoCall == [op |-> "new", kind |-> "new", size |-> 0, arg |-> 0, cursor0 |-> 0,
           maxCursor0 |-> 0, capacity0 |-> 0, data0 |-> NewUint8Array(0),
           err |-> "none", ret |-> "void"]

NoRead == [op |-> "none", arg |-> "none", cursor0 |-> 0, err |-> "none", ret |-> "void"]

Init ==
    /\ \E initialSize \in InitialSizes :
          LET w == NewWriter(initialSize)
          IN  /\ data = w.data
              /\ cursor = w.cursor
              /\ maxCursor = w.maxCursor
              /\ last = [NoCall EXCEPT !.arg = initialSize, !.capacity0 = initialSize]
              /\ trace = <<[op |-> "new", arg |-> initialSize]>>
    /\ exported = NewUint8Array(0)
    /\ aliased = FALSE
    /\ covered = {}
    /\ reached = 0
    /\ writeEnd = 0
    /\ nops = 0
    /\ rdata = NewUint8Array(0)
    /\ rcursor = 0
    /\ rlast = NoRead
    /\ rnops = 0

----------------------------------------------------------------------------
(* Writer calls *)

\* the writer of the current state, no call in progress
W == [data |-> data, cursor |-> cursor, maxCursor |-> maxCursor,
      err |-> "none", ret |-> "void", retBuffer |-> "none"]

\* The methods a run of Spec goes on after.  The other typed writes do to the
\* cursor, the high-water mark and the capacity what the write of the same
\* width among these does, so a run of Spec stops after one of them.
CoreOps == {"new", "seek", "ensureSize", "toUint8Array", "writeUInt8", "writeUInt16BE",
            "writeUInt32LE", "writeUInt64LE", "writeString", "writeBytes", "writeChars"}

\* One call of the writer method `op` with argument `arg`, w2 being the writer
\* it leaves.  kind is "write" (a write of `size` bytes), "seek" (size is the
\* offset), "grow" (ensureSize) or "export" (toUint8Array).  An array exported
\* earlier shows the bytes of the writer's buffer as long as it is a view of
\* that buffer, which a reallocation replaces by another.
Call(op, kind, size, arg, w2) ==
    /\ data' = w2.data
    /\ cursor' = w2.cursor
    /\ maxCursor' = w2.maxCursor
    /\ last' = [op |-> op, kind |-> kind, size |-> size, arg |-> arg,
                cursor0 |-> cursor, maxCursor0 |-> maxCursor,
                capacity0 |-> data.byteLength, data0 |-> data, err |-> w2.err,
                ret |-> IF kind = "export" THEN "array" ELSE w2.ret]
    /\ aliased' = IF kind = "export" THEN w2.retBuffer = "data"
                  ELSE aliased /\ w2.data.byteLength = data.byteLength
    /\ exported' = IF kind = "export" THEN w2.ret
                   ELSE IF aliased' THEN Slice(w2.data, 0, exported.byteLength)
                   ELSE exported
    /\ covered' = IF kind = "write" /\ w2.err = "none"
                  THEN covered \cup (cursor .. (cursor + size - 1)) ELSE covered
    /\ writeEnd' = IF kind = "write" /\ w2.err = "none"
                   THEN Max(writeEnd, cursor + size) ELSE writeEnd
    /\ reached' = IF kind = "write" /\ w2.err = "none" THEN Max(reached, cursor + size)
                  ELSE IF kind = "seek" /\ w2.err = "none" THEN Max(reached, size)
                  ELSE reached
    /\ nops' = nops + 1
    /\ trace' = Append(trace, [op |-> op, arg |-> arg])
    /\ UNCHANGED rvars

Seek == \E offset \in SeekOffsets : Call("seek", "seek", offset, offset, seek(W, offset))

EnsureSize == \E size \in EnsureSizes : Call("ensureSize", "grow", size, size, ensureSize(W, size))

ToUint8Array == Call("toUint8Array", "export", 0, 0, toUint8Array(W))

WriteUInt8(vals) == \E v \in vals : Call("writeUInt8", "write", 1, v, writeUInt8(W, v))

WriteInt8(vals) == \E v \in vals : Call("writeInt8", "write", 1, v, writeInt8(W, v))

WriteUInt32LE(vals) == \E v \in vals : Call("writeUInt32LE", "write", 4, v, writeUInt32LE(W, v))

WriteUInt32BE(vals) == \E v \in vals : Call("writeUInt32BE", "write", 4, v, writeUInt32BE(W, v))

WriteUInt16LE(vals) == \E v \in vals : Call("writeUInt16LE", "write", 2, v, writeUInt16LE(W, v))

WriteUInt16BE(vals) == \E v \in vals : Call("writeUInt16BE", "write", 2, v, writeUInt16BE(W, v))

WriteInt32LE(vals) == \E v \in vals : Call("writeInt32LE", "write", 4, v, writeInt32LE(W, v))

WriteInt32BE(vals) == \E v \in vals : Call("writeInt32BE", "write", 4, v, writeInt32BE(W, v))

WriteInt16LE(vals) == \E v \in vals : Call("writeInt16LE", "write", 2, v, writeInt16LE(W, v))

WriteInt16BE(vals) == \E v \in vals : Call("writeInt16BE", "write", 2, v, writeInt16BE(W, v))

WriteUInt64LE(vals) == \E v \in vals : Call("writeUInt64LE", "write", 8, v, writeUInt64LE(W, v))

WriteUInt64BE(vals) == \E v \in vals : Call("writeUInt64BE", "write", 8, v, writeUInt64BE(W, v))

WriteInt64LE(vals) == \E v \in vals : Call("writeInt64LE", "write", 8, v, writeInt64LE(W, v))

WriteInt64BE(vals) == \E v \in vals : Call("writeInt64BE", "write", 8, v, writeInt64BE(W, v))

WriteFloat32LE(vals) == \E v \in vals : Call("writeFloat32LE", "write", 4, v, writeFloat32LE(W, v))

WriteFloat64LE(vals) == \E v \in vals : Call("writeFloat64LE", "write", 8, v, writeFloat64LE(W, v))

WriteFloat32BE(vals) == \E v \in vals : Call("writeFloat32BE", "write", 4, v, writeFloat32BE(W, v))

WriteFloat64BE(vals) == \E v \in vals : Call("writeFloat64BE", "write", 8, v, writeFloat64BE(W, v))

WriteFloat32(vals) == \E v \in vals : Call("writeFloat32", "write", 4, v, writeFloat32(W, v))

WriteFloat64(vals) == \E v \in vals : Call("writeFloat64", "write", 8, v, writeFloat64(W, v))

WriteString(vals) ==
    \E v \in vals : Call("writeString", "write", Len(TextEncode(v)) + 1, v, writeString(W, v))

WriteBytes(vals) == \E v \in vals : Call("writeBytes", "write", Len(v), v, writeBytes(W, v))

WriteChars(vals) ==
    \E v \in vals : Call("writeChars", "write", Len(TextEncode(v)), v, writeChars(W, v))

\* the last call is one a run of Spec goes on after, and the run may go on
Continues == last.op \in CoreOps /\ nops < MaxOps

\* Every call of the writer, with one argument per typed write
Next ==
    \/ Continues /\ Seek
    \/ Continues /\ EnsureSize
    \/ Continues /\ ToUint8Array
    \/ Continues /\ WriteUInt8(U8Core)
    \/ Continues /\ WriteInt8(I8Core)
    \/ Continues /\ WriteUInt32LE(U32Core)
    \/ Continues /\ WriteUInt32BE(U32Core)
    \/ Continues /\ WriteUInt16LE(U16Core)
    \/ Continues /\ WriteUInt16BE(U16Core)
    \/ Continues /\ WriteInt32LE(I32Core)
    \/ Continues /\ WriteInt32BE(I32Core)
    \/ Continues /\ WriteInt16LE(I16Core)
    \/ Continues /\ WriteInt16BE(I16Core)
    \/ Continues /\ WriteUInt64LE(U64Core)
    \/ Continues /\ WriteUInt64BE(U64Core)
    \/ Continues /\ WriteInt64LE(I64Core)
    \/ Continues /\ WriteInt64BE(I64Core)
    \/ Continues /\ WriteFloat32LE(FloatCore)
    \/ Continues /\ WriteFloat64LE(FloatCore)
    \/ Continues /\ WriteFloat32BE(FloatCore)
    \/ Continues /\ WriteFloat64BE(FloatCore)
    \/ Continues /\ WriteFloat32(FloatCore)
    \/ Continues /\ WriteFloat64(FloatCore)
    \/ Continues /\ WriteString(TextCore)
    \/ Continues /\ WriteBytes(BytesCore)
    \/ Continues /\ WriteChars(CharsCore)

Spec == Init /\ [][Next]_vars

----------------------------------------------------------------------------
(* Reader calls *)

\* the reader of the current state, no call in progress
R == [data |-> rdata, cursor |-> rcursor, err |-> "none", ret |-> "void"]

\* new BinaryReader(exported.buffer): a reader over the array the writer exported
OpenReader ==
    /\ last.kind = "export"
    /\ rlast.op = "none"
    /\ LET r == NewReader(exported)
       IN  /\ rdata' = r.data
           /\ rcursor' = r.cursor
    /\ rlast' = [NoRead EXCEPT !.op = "new"]
    /\ rnops' = 0
    /\ UNCHANGED wvars

\* One call of the reader method `op` with argument `arg` ("none" when it
\* takes none), r2 being the reader it leaves
RCallArg(op, arg, r2) ==
    /\ rlast.op # "none"
    /\ rcursor' = r2.cursor
    /\ rlast' = [op |-> op, arg |-> arg, cursor0 |-> rcursor, err |-> r2.err, ret |-> r2.ret]
    /\ rnops' = rnops + 1
    /\ UNCHANGED <<rdata, wvars>>

\* One call of a reader method that takes no argument
RCall(op, r2) == RCallArg(op, "none", r2)

ReadUInt8 == RCall("readUInt8", readUInt8(R))

ReadInt8 == RCall("readInt8", readInt8(R))

ReadUInt64LE == RCall("readUInt64LE", readUInt64LE(R))

ReadUInt32LE == RCall("readUInt32LE", readUInt32LE(R))

ReadUInt16LE == RCall("readUInt16LE", readUInt16LE(R))

ReadInt64LE == RCall("readInt64LE", readInt64LE(R))

ReadInt32LE == RCall("readInt32LE", readInt32LE(R))

ReadInt16LE == RCall("readInt16LE", readInt16LE(R))

ReadUInt64BE == RCall("readUInt64BE", readUInt64BE(R))

ReadUInt32BE == RCall("readUInt32BE", readUInt32BE(R))

ReadUInt16BE == RCall("readUInt16BE", readUInt16BE(R))

ReadInt64BE == RCall("readInt64BE", readInt64BE(R))

ReadInt32BE == RCall("readInt32BE", readInt32BE(R))

ReadInt16BE == RCall("readInt16BE", readInt16BE(R))

ReadFloat32BE == RCall("readFloat32BE", readFloat32BE(R))

ReadFloat64BE == RCall("readFloat64BE", readFloat64BE(R))

ReadFloat32 == RCall("readFloat32", readFloat32(R))

ReadFloat64 == RCall("readFloat64", readFloat64(R))

ReadFloat32LE == RCall("readFloat32LE", readFloat32LE(R))

ReadFloat64LE == RCall("readFloat64LE", readFloat64LE(R))

ReadString == RCall("readString", readString(R))

\* a writer on which no method has been called yet
Fresh == nops = 0

\* a writer on which one method has been called
Written == nops = 1

\* the reader of a run of SpecCodec may make one more call
MayRead == rnops < MaxReads

\* One write on a fresh writer, the export of its result, a reader over the
\* exported bytes and the reads from it
NextCodec ==
    \/ Fresh /\ WriteUInt8(U8All)
    \/ Fresh /\ WriteInt8(I8All)
    \/ Fresh /\ WriteUInt32LE(U32All)
    \/ Fresh /\ WriteUInt32BE(U32All)
    \/ Fresh /\ WriteUInt16LE(U16All)
    \/ Fresh /\ WriteUInt16BE(U16All)
    \/ Fresh /\ WriteInt32LE(I32All)
    \/ Fresh /\ WriteInt32BE(I32All)
    \/ Fresh /\ WriteInt16LE(I16All)
    \/ Fresh /\ WriteInt16BE(I16All)
    \/ Fresh /\ WriteUInt64LE(U64All)
    \/ Fresh /\ WriteUInt64BE(U64All)
    \/ Fresh /\ WriteInt64LE(I64All)
    \/ Fresh /\ WriteInt64BE(I64All)
    \/ Fresh /\ WriteFloat32LE(FloatAll)
    \/ Fresh /\ WriteFloat64LE(FloatAll)
    \/ Fresh /\ WriteFloat32BE(FloatAll)
    \/ Fresh /\ WriteFloat64BE(FloatAll)
    \/ Fresh /\ WriteFloat32(FloatAll)
    \/ Fresh /\ WriteFloat64(FloatAll)
    \/ Fresh /\ WriteString(Texts)
    \/ Written /\ ToUint8Array
    \/ OpenReader
    \/ MayRead /\ ReadUInt8
    \/ MayRead /\ ReadInt8
    \/ MayRead /\ ReadUInt64LE
    \/ MayRead /\ ReadUInt32LE
    \/ MayRead /\ ReadUInt16LE
    \/ MayRead /\ ReadInt64LE
    \/ MayRead /\ ReadInt32LE
    \/ MayRead /\ ReadInt16LE
    \/ MayRead /\ ReadUInt64BE
    \/ MayRead /\ ReadUInt32BE
    \/ MayRead /\ ReadUInt16BE
    \/ MayRead /\ ReadInt64BE
    \/ MayRead /\ ReadInt32BE
    \/ MayRead /\ ReadInt16BE
    \/ MayRead /\ ReadFloat32BE
    \/ MayRead /\ ReadFloat64BE
    \/ MayRead /\ ReadFloat32
    \/ MayRead /\ ReadFloat64
    \/ MayRead /\ ReadFloat32LE
    \/ MayRead /\ ReadFloat64LE
    \/ MayRead /\ ReadString

SpecCodec == Init /\ [][NextCodec]_vars

----------------------------------------------------------------------------
(* The writer of the usage example *)

\* the calls a writer of SpecExample makes at most
MaxExampleOps == 5

\* the arguments of the example: 1, 0x0203, 0x04050607 and 0x08090a0b0c0d0e0f
U8Example == {Num(1)}
U16Example == {Num(515)}
U32Example == {Num(67438087)}
U64Example == {Big(FALSE, 2057, 2571, 3085, 3599)}

\* the writer of a run of SpecExample may make one more call
ExampleGoesOn == nops < MaxExampleOps

\* The calls of the example, in any order
NextExample ==
    \/ ExampleGoesOn /\ WriteUInt8(U8Example)
    \/ ExampleGoesOn /\ WriteUInt16BE(U16Example)
    \/ ExampleGoesOn /\ WriteUInt32LE(U32Example)
    \/ ExampleGoesOn /\ WriteUInt64BE(U64Example)
    \/ ExampleGoesOn /\ ToUint8Array

SpecExample == Init /\ [][NextExample]_vars

----------------------------------------------------------------------------
(* A writer that goes back over what it wrote *)

\* the calls a writer of SpecRewrite makes at most
MaxRewriteOps == 4

\* the writer of a run of SpecRewrite may make one more call
RewriteGoesOn == nops < MaxRewriteOps

\* Seeks, growth, exports, the writes of the example and the 8-byte write of
\* the growth test, in any order
NextRewrite ==
    \/ RewriteGoesOn /\ Seek
    \/ RewriteGoesOn /\ EnsureSize
    \/ RewriteGoesOn /\ ToUint8Array
    \/ RewriteGoesOn /\ WriteUInt8(U8Example)
    \/ RewriteGoesOn /\ WriteUInt16BE(U16Example)
    \/ RewriteGoesOn /\ WriteUInt32LE(U32Example)
    \/ RewriteGoesOn /\ WriteUInt64LE(U64Core)

SpecRewrite == Init /\ [][NextRewrite]_vars

----------------------------------------------------------------------------
(* A reader over a buffer its caller supplies *)

\* the calls a reader of SpecReader makes at most
MaxReaderOps == 4

\* the sixteen bytes 1 .. 16
OneToSixteen == [i \in 1..16 |-> i]

\* "tsukuyomichankawaii" and its terminator
Tsukuyomi == <<116, 115, 117, 107, 117, 121, 111, 109, 105, 99, 104, 97, 110, 107, 97,
               119, 97, 105, 105, 0>>

\* "Hello, World!" and its terminator
HelloWorld == <<72, 101, 108, 108, 111, 44, 32, 87, 111, 114, 108, 100, 33, 0>>

\* bytes with the sign bit set, two zero bytes and an unterminated tail
Signed9 == <<128, 255, 0, 1, 254, 127, 0, 200, 255>>

\* the bit patterns of the readFloat32 and readFloat64 tests
Float32Test == <<20, 26, 10, 10>>
Float64Test == <<122, 110, 116, 109, 116, 101, 116, 101>>

\* the buffers given to the constructor
Sources == {<<>>, OneToSixteen, Tsukuyomi, HelloWorld, Signed9, Float32Test, Float64Test}

\* offsets given to the reader's seek
ReaderSeekOffsets == {-1, 0, 3, 7, 9, 16, 20, 21}

\* lengths given to readBytes and readChars
ReadLengths == {0, 2, 4}

\* the kind tags of the generic read and write, and tags outside them
Kinds == {"u8", "i8", "u16", "i16", "u32", "i32", "f32", "f64"}
OtherKinds == {"u64", "i64", "f16", ""}

\* the endian argument, "undefined" when it is left out
Endians == {"undefined", "le", "be"}

\* a reader just built over one of the sources, beside a writer just built
InitReader ==
    /\ LET w == NewWriter(256)
       IN  /\ data = w.data
           /\ cursor = w.cursor
           /\ maxCursor = w.maxCursor
    /\ last = [NoCall EXCEPT !.arg = 256, !.capacity0 = 256]
    /\ trace = <<[op |-> "new", arg |-> 256]>>
    /\ exported = NewUint8Array(0)
    /\ aliased = FALSE
    /\ covered = {}
    /\ reached = 0
    /\ writeEnd = 0
    /\ nops = 0
    /\ \E source \in Sources :
          LET r == NewReader(FromBytes(source))
          IN  /\ rdata = r.data
              /\ rcursor = r.cursor
    /\ rlast = [NoRead EXCEPT !.op = "new"]
    /\ rnops = 0

ReaderSeek ==
    \E offset \in ReaderSeekOffsets : RCallArg("seek", offset, readerSeek(R, offset))

ReadBytes == \E length \in ReadLengths : RCallArg("readBytes", length, readBytes(R, length))

ReadChars == \E length \in ReadLengths : RCallArg("readChars", length, readChars(R, length))

ReadToEnd == RCall("readToEnd", readToEnd(R))

Read(kinds) ==
    \E kind \in kinds, endian \in Endians :
        RCallArg("read", [kind |-> kind, endian |-> endian], read(R, kind, endian))

\* the reader of a run of SpecReader may make one more call
ReaderGoesOn == rnops < MaxReaderOps

\* Every call of the reader
NextReader ==
    \/ ReaderGoesOn /\ ReaderSeek
    \/ ReaderGoesOn /\ ReadUInt8
    \/ ReaderGoesOn /\ ReadInt8
    \/ ReaderGoesOn /\ Read(Kinds \cup OtherKinds)
    \/ ReaderGoesOn /\ ReadUInt64LE
    \/ ReaderGoesOn /\ ReadUInt32LE
    \/ ReaderGoesOn /\ ReadUInt16LE
    \/ ReaderGoesOn /\ ReadInt64LE
    \/ ReaderGoesOn /\ ReadInt32LE
    \/ ReaderGoesOn /\ ReadInt16LE
    \/ ReaderGoesOn /\ ReadUInt64BE
    \/ ReaderGoesOn /\ ReadUInt32BE
    \/ ReaderGoesOn /\ ReadUInt16BE
    \/ ReaderGoesOn /\ ReadInt64BE
    \/ ReaderGoesOn /\ ReadInt32BE
    \/ ReaderGoesOn /\ ReadInt16BE
    \/ ReaderGoesOn /\ ReadFloat32BE
    \/ ReaderGoesOn /\ ReadFloat64BE
    \/ ReaderGoesOn /\ ReadFloat32
    \/ ReaderGoesOn /\ ReadFloat64
    \/ ReaderGoesOn /\ ReadFloat32LE
    \/ ReaderGoesOn /\ ReadFloat64LE
    \/ ReaderGoesOn /\ ReadString
    \/ ReaderGoesOn /\ ReadBytes
    \/ ReaderGoesOn /\ ReadToEnd
    \/ ReaderGoesOn /\ ReadChars

SpecReader == InitReader /\ [][NextReader]_vars

----------------------------------------------------------------------------
(* The generic write and read, on a writer and on a reader *)

\* the calls a writer or a reader of SpecDispatch makes at most
MaxDispatchOps == 2

\* the value written with a kind tag
KindValue(kind) ==
    CASE kind = "u8" -> Num(1)
      [] kind = "i8" -> Num(-1)
      [] kind = "u16" -> Num(4660)
      [] kind = "i16" -> Num(-2)
      [] kind = "u32" -> Num(305419896)
      [] kind = "i32" -> Num(-3)
      [] kind \in {"f32", "f64"} -> "1.5"
      [] OTHER -> Num(1)

\* the bytes a write with a kind tag stores, none for a tag it does not know
KindSize(kind) ==
    CASE kind \in {"u8", "i8"} -> 1
      [] kind \in {"u16", "i16"} -> 2
      [] kind \in {"u32", "i32", "f32"} -> 4
      [] kind = "f64" -> 8
      [] OTHER -> 0

Write(kinds) ==
    \E kind \in kinds, endian \in Endians :
        Call("write", "write", KindSize(kind),
             [value |-> KindValue(kind), kind |-> kind, endian |-> endian],
             write(W, KindValue(kind), kind, endian))

\* the writer is the one in use and may make one more call
WriterTurn == rnops = 0 /\ nops < MaxDispatchOps

\* the reader is the one in use and may make one more call
ReaderTurn == nops = 0 /\ rnops < MaxDispatchOps

\* The generic calls, after a seek, a one-byte write or read, or an ensureSize
NextDispatch ==
    \/ WriterTurn /\ Seek
    \/ WriterTurn /\ EnsureSize
    \/ WriterTurn /\ WriteUInt8(U8Core)
    \/ WriterTurn /\ Write(Kinds \cup OtherKinds)
    \/ ReaderTurn /\ ReaderSeek
    \/ ReaderTurn /\ ReadUInt8
    \/ ReaderTurn /\ Read(Kinds \cup OtherKinds)

SpecDispatch == InitReader /\ [][NextDispatch]_vars

----------------------------------------------------------------------------
(* Properties of the writer's bookkeeping, checked under Spec *)

\* the names of the calls made so far, the constructor first
TraceOps == [i \in 1..Len(trace) |-> trace[i].op]

\* what toUint8Array() returns in the current state
Export == toUint8Array(W).ret

\* C1: in every reachable state of the writer the capacity is at least the
\* length (the high-water mark maxCursor).
C1_CapacityCoversLength == getCapacity(W) >= getLength(W)

\* a write has grown the buffer to exactly the new length
C1_Witness ==
    /\ last.kind = "write"
    /\ getCapacity(W) > last.capacity0
    /\ getLength(W) = getCapacity(W)

\* C2: toUint8Array() returns exactly the bytes buffer[0 .. maxCursor-1]: its
\* length is maxCursor, not the capacity, and it is the same whatever the
\* cursor is.
C2_ExportIsLengthPrefix ==
    last.kind = "export" =>
        /\ exported.byteLength = maxCursor
        /\ \A i \in DOMAIN exported.nz \cup DOMAIN data.nz :
              i < maxCursor => ByteAt(exported, i) = ByteAt(data, i)
        /\ \A i \in DOMAIN exported.nz : i < maxCursor
        /\ \A c \in {0, maxCursor, data.byteLength} :
              toUint8Array([W EXCEPT !.cursor = c]).ret = exported

\* an export taken with the cursor seeked back below a length that is below
\* the capacity
C2_Witness ==
    /\ last.kind = "export"
    /\ cursor < maxCursor
    /\ maxCursor < data.byteLength
    /\ exported.nz # EmptyFcn

\* C3: a write of byte width w started at cursor c ends with cursor = c + w
\* and maxCursor = max(previous maxCursor, c + w).
C3_WriteAdvances ==
    last.kind = "write" =>
        /\ cursor = last.cursor0 + last.size
        /\ maxCursor = Max(last.maxCursor0, last.cursor0 + last.size)

\* a null-terminated string written from inside the data already written, to
\* beyond its end
C3_Witness ==
    /\ last.op = "writeString"
    /\ last.size = 5
    /\ last.cursor0 < last.maxCursor0
    /\ last.cursor0 + last.size > last.maxCursor0
    /\ maxCursor = last.cursor0 + 5

\* C4: a write of size s at cursor c with capacity k leaves the capacity
\* unchanged if c + s <= k; otherwise the new capacity is max(c + s, k + 2048)
\* when k >= 2048 and max(c + s, 2 * k) when k < 2048.  A writer built with
\* capacity 2 has capacity 4 after three 1-byte writes and capacity 11 after
\* a following 8-byte write.
C4_GrowthPolicy ==
    /\ last.kind = "write" =>
          LET c == last.cursor0
              s == last.size
              k == last.capacity0
          IN  getCapacity(W) = IF c + s <= k THEN k
                               ELSE IF k >= 2048 THEN Max(c + s, k + 2048)
                               ELSE Max(c + s, 2 * k)
    /\ (trace[1].arg = 2 /\ TraceOps = <<"new", "writeUInt8", "writeUInt8", "writeUInt8">>)
          => getCapacity(W) = 4
    /\ (trace[1].arg = 2 /\ TraceOps = <<"new", "writeUInt8", "writeUInt8", "writeUInt8",
                                         "writeUInt64LE">>)
          => getCapacity(W) = 11

\* the run of the growth test: a writer built with capacity 2 has made three
\* 1-byte writes, which left the capacity 4, and the 8-byte write after them
C4_Witness ==
    /\ trace[1].arg = 2
    /\ TraceOps = <<"new", "writeUInt8", "writeUInt8", "writeUInt8", "writeUInt64LE">>
    /\ last.cursor0 = 3
    /\ last.capacity0 = 4
    /\ getCapacity(W) = 11
    /\ ToBytes(Export) = <<1, 1, 1, 1, 0, 0, 0, 0, 0, 0, 0>>

\* C5: no write fails due to capacity: when a write encodes its value the
\* range [cursor, cursor + width) lies inside the allocated buffer.
C5_WriteFits ==
    last.kind = "write" =>
        /\ last.err = "none"
        /\ last.cursor0 + last.size <= getCapacity(W)

\* a write on a writer built with capacity 0
C5_Witness ==
    /\ last.kind = "write"
    /\ last.capacity0 = 0
    /\ last.size > 0
    /\ getCapacity(W) = last.size

\* C9: every byte of the export at an index below maxCursor that no write has
\* covered is 0 (the indices holding a non-zero byte are all covered); writing one byte, seeking to offset k ahead of the cursor and
\* writing one byte exports k + 1 bytes, the second byte at index k, zeros in
\* between.
C9_SparseZeroFill ==
    LET e == Export
    IN  /\ e.byteLength = maxCursor
        /\ \A i \in DOMAIN e.nz : i \in covered
        /\ (TraceOps = <<"new", "writeUInt8", "seek", "writeUInt8">> /\ trace[3].arg > 1) =>
              LET k == trace[3].arg
              IN  /\ e.byteLength = k + 1
                  /\ ByteAt(e, 0) = NumericToRawBytes(trace[2].arg, 1, TRUE)[1]
                  /\ ByteAt(e, k) = NumericToRawBytes(trace[4].arg, 1, TRUE)[1]
                  /\ \A i \in 1..(k - 1) : ByteAt(e, i) = 0

\* one byte, a seek to offset 8, one byte
C9_Witness ==
    /\ TraceOps = <<"new", "writeUInt8", "seek", "writeUInt8">>
    /\ trace[3].arg = 8
    /\ ToBytes(Export) = <<1, 0, 0, 0, 0, 0, 0, 0, 1>>

\* C10 as stated: the high-water mark is the greatest end position of a write
\* (0 if no write was performed), so that a seek ahead alone leaves the cursor
\* beyond it and does not change the exported length.
C10_Original == maxCursor = writeEnd

\* C10, amended: the high-water mark is the greatest position the cursor has
\* been put at, by a write (its end position) or by a seek (its offset), 0 if
\* neither happened: a seek ahead raises the exported length to its offset.
C10_HighWaterMark ==
    /\ maxCursor = reached
    /\ last.kind = "seek" =>
          /\ cursor = last.size
          /\ maxCursor = Max(last.maxCursor0, last.size)
          /\ Export.byteLength = maxCursor

\* a seek ahead of everything written has raised the length
C10_Witness ==
    /\ last.kind = "seek"
    /\ writeEnd > 0
    /\ last.size > writeEnd
    /\ maxCursor = last.size

\* the writer as it was before the last call
Before == [data |-> last.data0, cursor |-> last.cursor0, maxCursor |-> last.maxCursor0,
           err |-> "none", ret |-> "void", retBuffer |-> "none"]

\* C11: ensureSize(n) leaves the cursor, the length and the exported bytes
\* unchanged and returns the resulting capacity, max(previous capacity, n);
\* when n is at most the capacity it changes nothing at all, and calling it
\* again with the same n changes nothing and returns the same capacity.
C11_EnsureSizeFrame ==
    last.kind = "grow" =>
        LET n     == last.arg
            k     == last.capacity0
            again == ensureSize(W, n)
        IN  /\ last.err = "none"
            /\ cursor = last.cursor0
            /\ maxCursor = last.maxCursor0
            /\ Export = toUint8Array(Before).ret
            /\ last.ret = Max(k, n)
            /\ getCapacity(W) = last.ret
            /\ n <= k => data = last.data0
            /\ again = [W EXCEPT !.ret = last.ret]

\* ensureSize has grown a buffer that holds written bytes, the cursor seeked
\* back below the length
C11_Witness ==
    /\ last.kind = "grow"
    /\ last.arg > last.capacity0
    /\ getCapacity(W) = last.arg
    /\ cursor < maxCursor
    /\ Export.nz # EmptyFcn

\* the last call has reallocated the buffer: the condition under which
\* preWrite (for a write or a seek) or ensureSize calls extendBuffer
Reallocated ==
    \/ last.kind = "write" /\ last.cursor0 + last.size > last.capacity0
    \/ last.kind = "seek" /\ last.size > last.capacity0
    \/ last.kind = "grow" /\ last.arg > last.capacity0

\* C20: the capacity never decreases: over every step (a write, a seek, an
\* ensureSize with any argument, an export) the capacity after it is at least
\* the capacity before it, strictly greater when the step reallocates the
\* buffer and equal when it does not.
C20_CapacityMonotone ==
    [][/\ data'.byteLength >= data.byteLength
       /\ Reallocated' => data'.byteLength > data.byteLength
       /\ ~Reallocated' => data'.byteLength = data.byteLength]_vars

\* ensureSize with an argument below the capacity, after the buffer has grown
C20_Witness ==
    /\ last.op = "ensureSize"
    /\ last.arg < last.capacity0
    /\ last.capacity0 > trace[1].arg
    /\ getCapacity(W) = last.capacity0

\* C21: seek(offset) with a non-negative offset (before, at or beyond the
\* length and the capacity) sets the cursor to exactly offset and leaves
\* capacity >= offset, so capacity >= cursor after every seek; a seek backward
\* or to an offset within the capacity reallocates nothing.
C21_SeekCovered ==
    last.kind = "seek" =>
        /\ last.err = "none"
        /\ cursor = last.arg
        /\ getCapacity(W) >= last.arg
        /\ getCapacity(W) >= cursor
        /\ (last.arg < last.cursor0 \/ last.arg <= last.capacity0) =>
              (~Reallocated /\ data = last.data0)

\* a seek beyond the capacity of a buffer that holds written bytes
C21_Witness ==
    /\ last.kind = "seek"
    /\ last.arg > last.capacity0
    /\ last.maxCursor0 > 0
    /\ cursor = last.arg
    /\ getCapacity(W) = last.arg

------------------------------------------------------------\* the indices the last call has stored bytes at
WrittenRange ==
    IF last.kind = "write" THEN last.cursor0 .. (last.cursor0 + last.size - 1) ELSE {}

\* C25: every reallocation of the buffer (by a write, a seek or ensureSize)
\* preserves its content: each byte below the old capacity keeps its value
\* and each byte from the old capacity up to the new one is 0, but for the
\* bytes a reallocating write then stores.  The export right after an
\* ensureSize equals the export right before it; a seek that reallocates goes
\* beyond the length (none grows the capacity from within it) and keeps the
\* bytes exported before as the prefix of the longer export.
C25_ReallocationPreserves ==
    Reallocated =>
        /\ last.err = "none"
        /\ getCapacity(W) > last.capacity0
        /\ \A i \in (DOMAIN data.nz \cup DOMAIN last.data0.nz) \ WrittenRange :
              /\ i < last.capacity0 => ByteAt(data, i) = ByteAt(last.data0, i)
              /\ i >= last.capacity0 => ByteAt(data, i) = 0
        /\ last.kind = "grow" =>
              /\ Export = toUint8Array(Before).ret
              /\ cursor = last.cursor0
              /\ getLength(W) = last.maxCursor0
        /\ last.kind = "seek" =>
              /\ last.arg > last.maxCursor0
              /\ data.nz = last.data0.nz
              /\ Slice(Export, 0, last.maxCursor0) = toUint8Array(Before).ret

\* ensureSize has reallocated a buffer that held bytes other than zero
C25_Witness ==
    /\ Reallocated
    /\ last.kind = "grow"
    /\ last.maxCursor0 > 0
    /\ last.data0.nz # EmptyFcn
    /\ Export.nz = last.data0.nz

\* C26: in every state the writer reaches with seek offsets >= 0 the cursor
\* is at most the length: a seek beyond the length raises the high-water mark
\* to its offset at once, so seek(k) on a fresh writer followed by
\* toUint8Array() returns k zero bytes.
C26_CursorWithinLength ==
    /\ cursor <= getLength(W)
    /\ (last.kind = "seek" /\ last.arg > last.maxCursor0) => getLength(W) = last.arg
    /\ TraceOps = <<"new", "seek", "toUint8Array">> =>
          /\ exported.byteLength = trace[2].arg
          /\ exported = NewUint8Array(trace[2].arg)

\* a fresh writer of capacity 2 has sought to 4097 and exported 4097 zero bytes
C26_Witness ==
    /\ TraceOps = <<"new", "seek", "toUint8Array">>
    /\ trace[1].arg = 2
    /\ trace[2].arg = 4097
    /\ cursor = 4097
    /\ exported.byteLength = 4097
    /\ exported.nz = EmptyFcn

\* C29: overwrite in place: a write of width w with the cursor at p (after a
\* seek back) and p + w <= maxCursor leaves maxCursor, so the exported
\* length, and the capacity unchanged, and changes the exported bytes at the
\* indices p .. p + w - 1 only: every other exported byte keeps its value.
C29_OverwriteInPlace ==
    (last.kind = "write" /\ last.cursor0 + last.size <= last.maxCursor0) =>
        LET old == toUint8Array(Before).ret
        IN  /\ last.err = "none"
            /\ ~Reallocated
            /\ cursor = last.cursor0 + last.size
            /\ getLength(W) = last.maxCursor0
            /\ getCapacity(W) = last.capacity0
            /\ Export.byteLength = old.byteLength
            /\ \A i \in (DOMAIN Export.nz \cup DOMAIN old.nz) \ WrittenRange :
                  ByteAt(Export, i) = ByteAt(old, i)
            /\ \A i \in (DOMAIN data.nz \cup DOMAIN last.data0.nz) \ WrittenRange :
                  ByteAt(data, i) = ByteAt(last.data0, i)

\* two bytes were written over the first half of a four-byte value: the
\* first two exported bytes have changed, the other two are as they were
C29_Witness ==
    /\ TraceOps = <<"new", "writeUInt32LE", "seek", "writeUInt16BE">>
    /\ last.cursor0 = 0
    /\ last.maxCursor0 = 4
    /\ ToBytes(toUint8Array(Before).ret) = <<7, 6, 5, 4>>
    /\ ToBytes(Export) = <<2, 3, 5, 4>>
    /\ cursor = 2

\* C30: what the writer shows does not depend on allocation.  The writer,
\* built with any of the initial capacities and given ensureSize calls among
\* its writes and seeks, has after every step the cursor, the length and the
\* toUint8Array() bytes of the writer built with capacity 0 and given the same
\* writes and seeks without the ensureSize calls: so any two writers given
\* the same writes and seeks agree on the three, whatever their capacities.
C30_AllocationIndependent ==
    /\ LET own == Replay(trace, Len(trace), trace[1].arg, TRUE)
       IN  own.data = data /\ own.cursor = cursor /\ own.maxCursor = maxCursor
    /\ LET other == Replay(trace, Len(trace), 0, FALSE)
       IN  /\ other.err = last.err
           /\ other.cursor = cursor
           /\ getLength(other) = getLength(W)
           /\ toUint8Array(other).ret = Export

\* a writer of initial capacity 2048 that was grown with ensureSize and then
\* written to exports the bytes a writer of capacity 0, never grown, exports
\* after the same write, their capacities being different
C30_Witness ==
    /\ trace[1].arg = 2048
    /\ Len(trace) = 3
    /\ trace[2].op = "ensureSize"
    /\ last.kind = "write"
    /\ Export.nz # EmptyFcn
    /\ LET other == Replay(trace, Len(trace), 0, FALSE)
       IN  /\ getCapacity(other) < 2048
           /\ getCapacity(W) > 2048
           /\ toUint8Array(other).ret = Export

\* C23: toUint8Array() mutates nothing: the call leaves the cursor, the
\* length, the capacity and the bytes of the buffer as they were, and the array
\* it returns is a copy: an array returned by an earlier call keeps its bytes
\* through every later write, seek and ensureSize of the writer.
C23_ExportIsCopy ==
    /\ [](last.kind = "export" =>
             /\ last.err = "none"
             /\ cursor = last.cursor0
             /\ getLength(W) = last.maxCursor0
             /\ getCapacity(W) = last.capacity0
             /\ data = last.data0)
    /\ [][last'.kind # "export" => exported' = exported]_vars

\* an array was exported with bytes in it, and the writer has since gone back
\* and stored another value at an index the array covers
C23_Witness ==
    /\ Len(trace) >= 3
    /\ trace[Len(trace) - 1].op = "toUint8Array"
    /\ last.kind = "write"
    /\ last.cursor0 < exported.byteLength
    /\ ~Reallocated
    /\ ByteAt(data, last.cursor0) # ByteAt(exported, last.cursor0)

----------------
(* Properties of the encodings, checked under SpecCodec *)

\* the integer write methods
IntWrites == {"writeUInt8", "writeInt8", "writeUInt16LE", "writeUInt16BE", "writeInt16LE",
              "writeInt16BE", "writeUInt32LE", "writeUInt32BE", "writeInt32LE",
              "writeInt32BE", "writeUInt64LE", "writeUInt64BE", "writeInt64LE",
              "writeInt64BE"}

\* the read method matching an integer write method: read in place of write
ReadOf(name) ==
    CASE name = "writeUInt8" -> "readUInt8"
      [] name = "writeInt8" -> "readInt8"
      [] name = "writeUInt16LE" -> "readUInt16LE"
      [] name = "writeUInt16BE" -> "readUInt16BE"
      [] name = "writeInt16LE" -> "readInt16LE"
      [] name = "writeInt16BE" -> "readInt16BE"
      [] name = "writeUInt32LE" -> "readUInt32LE"
      [] name = "writeUInt32BE" -> "readUInt32BE"
      [] name = "writeInt32LE" -> "readInt32LE"
      [] name = "writeInt32BE" -> "readInt32BE"
      [] name = "writeUInt64LE" -> "readUInt64LE"
      [] name = "writeUInt64BE" -> "readUInt64BE"
      [] name = "writeInt64LE" -> "readInt64LE"
      [] name = "writeInt64BE" -> "readInt64BE"

\* the first read from a reader over the export of a fresh writer's one write
FirstReadOfExport == rnops = 1 /\ Len(trace) = 3 /\ trace[3].op = "toUint8Array"

\* C6: writing an integer v of any kind and byte order on a fresh writer,
\* exporting, and reading with the matching read method returns v, and leaves
\* the reader's cursor at the writer's length.
C6_IntRoundTrip ==
    (FirstReadOfExport /\ trace[2].op \in IntWrites /\ rlast.op = ReadOf(trace[2].op)) =>
        /\ rlast.err = "none"
        /\ rlast.ret = trace[2].arg
        /\ rcursor = getLength(W)

\* the signed 64-bit minimum, written and read back little-endian
C6_Witness ==
    /\ FirstReadOfExport
    /\ trace[2].op = "writeInt64LE"
    /\ trace[2].arg = Big(TRUE, 32768, 0, 0, 0)
    /\ rlast.op = "readInt64LE"
    /\ rlast.ret = Big(TRUE, 32768, 0, 0, 0)
    /\ rcursor = 8

\* the big-endian method of a little-endian multi-byte integer write method
BigEndianOf(name) ==
    CASE name = "writeUInt16LE" -> "writeUInt16BE"
      [] name = "writeInt16LE" -> "writeInt16BE"
      [] name = "writeUInt32LE" -> "writeUInt32BE"
      [] name = "writeInt32LE" -> "writeInt32BE"
      [] name = "writeUInt64LE" -> "writeUInt64BE"
      [] name = "writeInt64LE" -> "writeInt64BE"

LittleEndianWrites == {"writeUInt16LE", "writeInt16LE", "writeUInt32LE", "writeInt32LE",
                       "writeUInt64LE", "writeInt64LE"}

\* the base-256 digits of the magnitude of v, least significant first
Digits(v, width) ==
    [i \in 1..width |-> IF i % 2 = 1 THEN v.limbs[(i + 1) \div 2] % 256
                                     ELSE v.limbs[i \div 2] \div 256]

RECURSIVE SumIsZero(_, _, _, _)
\* a + b = 0 modulo 256^Len(a), for digit sequences a and b, least significant
\* first, from digit i on with the carry coming in
SumIsZero(a, b, i, carry) ==
    IF i > Len(a) THEN TRUE
    ELSE /\ (a[i] + b[i] + carry) % 256 = 0
         /\ SumIsZero(a, b, i + 1, (a[i] + b[i] + carry) \div 256)

\* bytes, least significant first, are v in two's complement
IsTwosComplement(bytes, v) ==
    IF v.neg THEN SumIsZero(bytes, Digits(v, Len(bytes)), 1, 0)
             ELSE bytes = Digits(v, Len(bytes))

\* C7: a little-endian multi-byte integer write stores the least significant
\* byte at the lowest offset, the big-endian write the most significant one,
\* so the bytes of writeXLE(v) are the reverse of those of writeXBE(v);
\* 0x12345678 gives 78 56 34 12 and 12 34 56 78; negative values are stored
\* in two's complement.
C7_ByteOrder ==
    (nops = 1 /\ last.op \in LittleEndianWrites) =>
        LET v  == last.arg
            le == ToBytes(Slice(data, 0, last.size))
            be == ToBytes(Slice(Invoke(NewWriter(trace[1].arg), BigEndianOf(last.op), v).data,
                                0, last.size))
        IN  /\ Len(le) = last.size
            /\ le = Reverse(be)
            /\ IsTwosComplement(le, v)
            /\ (last.op = "writeUInt32LE" /\ v = Num(305419896)) =>
                   (le = <<120, 86, 52, 18>> /\ be = <<18, 52, 86, 120>>)

\* 0x12345678 written little-endian
C7_Witness ==
    /\ nops = 1
    /\ last.op = "writeUInt32LE"
    /\ last.arg = Num(305419896)
    /\ ToBytes(Slice(data, 0, 4)) = <<120, 86, 52, 18>>

\* a text without lone surrogates
IsWellFormed(text) == \A i \in 1..Len(text) : ~IsSurrogate(text[i])

\* C8 as stated: for every text whose UTF-8 encoding b contains no zero byte,
\* writeString on a fresh writer exports b followed by one zero byte, and
\* readString over those bytes returns the same text and leaves the reader's
\* cursor at len(b) + 1.  (Stated for the texts without lone surrogates, which
\* UTF-8 cannot encode.)
C8_StringRoundTrip ==
    (/\ FirstReadOfExport
     /\ trace[2].op = "writeString"
     /\ rlast.op = "readString"
     /\ IsWellFormed(trace[2].arg)
     /\ \A i \in 1..Len(TextEncode(trace[2].arg)) : TextEncode(trace[2].arg)[i] # 0) =>
        LET b == TextEncode(trace[2].arg)
        IN  /\ ToBytes(exported) = b \o <<0>>
            /\ rlast.err = "none"
            /\ rlast.ret = trace[2].arg
            /\ rcursor = Len(b) + 1

\* C12 as stated: the writer's bare float operations are big-endian like the
\* reader's: on a fresh writer writeFloat32(v) stores the bytes writeFloat32BE(v)
\* stores and writeFloat64(v) those of writeFloat64BE(v), and reading the
\* export back with readFloat32 / readFloat64 returns the bit pattern written.
C12_BareFloatBigEndian ==
    /\ (nops = 1 /\ last.op = "writeFloat32") =>
           data = writeFloat32BE(NewWriter(trace[1].arg), last.arg).data
    /\ (nops = 1 /\ last.op = "writeFloat64") =>
           data = writeFloat64BE(NewWriter(trace[1].arg), last.arg).data
    /\ (FirstReadOfExport /\ trace[2].op = "writeFloat32" /\ rlast.op = "readFloat32") =>
           (rlast.err = "none" /\ rlast.ret = Float32Bits(trace[2].arg))
    /\ (FirstReadOfExport /\ trace[2].op = "writeFloat64" /\ rlast.op = "readFloat64") =>
           (rlast.err = "none" /\ rlast.ret = Float64Bits(trace[2].arg))

----------------------------------------------------------------------------
(* Properties of the reader, checked under SpecReader *)

\* the reader as it was before the last call
RBefore == [data |-> rdata, cursor |-> rlast.cursor0, err |-> "none", ret |-> "void"]

\* the n bytes of d from index `from` on
BytesAt(d, from, n) == [i \in 1..n |-> ByteAt(d, from + i - 1)]

\* what the last reader call left: the cursor, the outcome and the result
RAfter == [cursor |-> rcursor, err |-> rlast.err, ret |-> rlast.ret]

\* the same three parts of a reader record
Outcome(r) == [cursor |-> r.cursor, err |-> r.err, ret |-> r.ret]

KindWidth(kind) ==
    CASE kind \in {"u8", "i8"} -> 1
      [] kind \in {"u16", "i16"} -> 2
      [] kind \in {"u32", "i32", "f32"} -> 4
      [] kind = "f64" -> 8

KindSigned(kind) == kind \in {"i8", "i16", "i32"}

\* the little-endian method of a kind tag
LittleEndianRead(r, kind) ==
    CASE kind = "u8" -> readUInt8(r)
      [] kind = "i8" -> readInt8(r)
      [] kind = "u16" -> readUInt16LE(r)
      [] kind = "i16" -> readInt16LE(r)
      [] kind = "u32" -> readUInt32LE(r)
      [] kind = "i32" -> readInt32LE(r)
      [] kind = "f32" -> readFloat32LE(r)
      [] kind = "f64" -> readFloat64LE(r)

\* the fixed-width integer read methods
IntReads == {"readUInt8", "readInt8", "readUInt16LE", "readUInt16BE", "readInt16LE",
             "readInt16BE", "readUInt32LE", "readUInt32BE", "readInt32LE", "readInt32BE",
             "readUInt64LE", "readUInt64BE", "readInt64LE", "readInt64BE"}

\* the width, signedness and byte order a read method's name states
ReadWidth(name) ==
    CASE name \in {"readUInt8", "readInt8"} -> 1
      [] name \in {"readUInt16LE", "readUInt16BE", "readInt16LE", "readInt16BE"} -> 2
      [] name \in {"readUInt32LE", "readUInt32BE", "readInt32LE", "readInt32BE"} -> 4
      [] name \in {"readUInt64LE", "readUInt64BE", "readInt64LE", "readInt64BE"} -> 8

ReadSigned(name) ==
    name \in {"readInt8", "readInt16LE", "readInt16BE", "readInt32LE", "readInt32BE",
              "readInt64LE", "readInt64BE"}

ReadLittleEndian(name) ==
    name \in {"readUInt8", "readInt8", "readUInt16LE", "readInt16LE", "readUInt32LE",
              "readInt32LE", "readUInt64LE", "readInt64LE"}

\* C15: a successful fixed-width read of width N returns the integer decoded
\* from exactly source[cursor .. cursor + N - 1] in the byte order and
\* signedness of the method and leaves the cursor at cursor + N, so that
\* the next read starts where this one ended.  Over the bytes 1 .. 16,
\* readUInt8 at 0 gives 1, readUInt16BE at 1 gives 0x0203, readUInt32LE at 3
\* gives 0x07060504 and readUInt64BE at 7 gives 0x08090a0b0c0d0e0f.
C15_FixedWidthReads ==
    /\ (rlast.op \in IntReads /\ rlast.err = "none") =>
          LET n     == ReadWidth(rlast.op)
              bytes == BytesAt(rdata, rlast.cursor0, n)
              le    == IF ReadLittleEndian(rlast.op) THEN bytes ELSE Reverse(bytes)
          IN  /\ rlast.cursor0 >= 0
              /\ rlast.cursor0 + n <= rdata.byteLength
              /\ rlast.ret = RawBytesToNumeric(bytes, ReadSigned(rlast.op),
                                               ReadLittleEndian(rlast.op))
              /\ IsTwosComplement(le, rlast.ret)
              /\ rlast.ret.neg <=> (ReadSigned(rlast.op) /\ le[n] >= 128)
              /\ rcursor = rlast.cursor0 + n
    /\ rdata = FromBytes(OneToSixteen) =>
          /\ (rlast.op = "readUInt8" /\ rlast.cursor0 = 0) =>
                (rlast.ret = Num(1) /\ rcursor = 1)
          /\ (rlast.op = "readUInt16BE" /\ rlast.cursor0 = 1) =>
                (rlast.ret = Num(515) /\ rcursor = 3)
          /\ (rlast.op = "readUInt32LE" /\ rlast.cursor0 = 3) =>
                (rlast.ret = Big(FALSE, 0, 0, 1798, 1284) /\ rcursor = 7)
          /\ (rlast.op = "readUInt64BE" /\ rlast.cursor0 = 7) =>
                (rlast.ret = Big(FALSE, 2057, 2571, 3085, 3599) /\ rcursor = 15)
    /\ (rdata = FromBytes(Tsukuyomi) /\ rlast.cursor0 = 0) =>
          /\ rlast.op \in {"readUInt32LE", "readInt32LE"} =>
                rlast.ret = Big(FALSE, 0, 0, 27509, 29556)
          /\ rlast.op \in {"readUInt32BE", "readInt32BE"} =>
                rlast.ret = Big(FALSE, 0, 0, 29811, 30059)
          /\ rlast.op \in {"readUInt16LE", "readInt16LE"} => rlast.ret = Num(29556)
          /\ rlast.op \in {"readUInt16BE", "readInt16BE"} => rlast.ret = Num(29811)

\* the fourth read of the usage example: readUInt64BE from offset 7 of 1 .. 16
C15_Witness ==
    /\ rdata = FromBytes(OneToSixteen)
    /\ rnops = 4
    /\ rlast.op = "readUInt64BE"
    /\ rlast.cursor0 = 7
    /\ rlast.ret = Big(FALSE, 2057, 2571, 3085, 3599)
    /\ rcursor = 15

\* the reader calls that consume bytes: every call but seek
Consuming == rlast.op \notin {"none", "new", "seek"}

\* C16 as stated: after any successful reader operation (any read, readToEnd
\* or seek) the cursor is a non-negative offset that is at most source.length.
C16_Original ==
    (rlast.op \notin {"none", "new"} /\ rlast.err = "none") =>
        (rcursor >= 0 /\ rcursor <= rdata.byteLength)

\* C16, amended: seek(offset) checks no bound and leaves the cursor at offset,
\* be it negative or beyond source.length; every other successful operation
\* moves the cursor forward by the width it consumed and, started at a cursor
\* in 0 .. source.length, leaves it in 0 .. source.length; one that consumed
\* at least one byte leaves it there wherever it started.
C16_CursorInBounds ==
    /\ rlast.op = "seek" => (rlast.err = "none" /\ rcursor = rlast.arg)
    /\ (Consuming /\ rlast.err = "none") =>
          /\ rcursor >= rlast.cursor0
          /\ (rlast.cursor0 >= 0 /\ rlast.cursor0 <= rdata.byteLength) =>
                (rcursor >= 0 /\ rcursor <= rdata.byteLength)
          /\ rcursor > rlast.cursor0 => (rcursor > 0 /\ rcursor <= rdata.byteLength)

\* a read that ended exactly at the end of the source, after a seek
C16_Witness ==
    /\ rlast.op = "readBytes"
    /\ rlast.err = "none"
    /\ rlast.arg = 4
    /\ rlast.cursor0 = 16
    /\ rcursor = rdata.byteLength

\* C17: in every reachable reader state hasMoreData is true if and only if
\* cursor < source.length: it is false with the cursor exactly at the end and
\* false with the cursor past the end; with a non-negative cursor it is true
\* exactly when one more byte can be read.  Over the 20-byte test buffer it
\* is true after construction and false after seek(20).
C17_HasMoreData ==
    /\ hasMoreData(R) <=> rcursor < rdata.byteLength
    /\ rcursor = rdata.byteLength => ~hasMoreData(R)
    /\ rcursor > rdata.byteLength => ~hasMoreData(R)
    /\ rcursor >= 0 => (hasMoreData(R) <=> readUInt8(R).err = "none")
    /\ rdata = FromBytes(Tsukuyomi) =>
          /\ rlast.op = "new" => hasMoreData(R)
          /\ (rlast.op = "seek" /\ rlast.arg = 20) => ~hasMoreData(R)

\* the cursor seeked past the end of the 20-byte test buffer
C17_Witness ==
    /\ rdata = FromBytes(Tsukuyomi)
    /\ rlast.op = "seek"
    /\ rlast.arg = 21
    /\ rcursor > rdata.byteLength
    /\ ~hasMoreData(R)

\* the float read methods of each width
Float32Reads == {"readFloat32", "readFloat32BE", "readFloat32LE"}
Float64Reads == {"readFloat64", "readFloat64BE", "readFloat64LE"}

\* the last reader call is a read of a fixed width
FixedWidthCall ==
    \/ rlast.op \in IntReads \cup Float32Reads \cup Float64Reads
    \/ rlast.op = "read" /\ rlast.arg.kind \in Kinds

\* the width the last reader call requires
CallWidth ==
    CASE rlast.op \in IntReads -> ReadWidth(rlast.op)
      [] rlast.op \in Float32Reads -> 4
      [] rlast.op \in Float64Reads -> 8
      [] rlast.op = "read" -> KindWidth(rlast.arg.kind)
      [] rlast.op \in {"readBytes", "readChars"} -> rlast.arg

\* the source holds a zero byte at index `from` or after it
ZeroFrom(from) == \E i \in from .. (rdata.byteLength - 1) : i >= 0 /\ ByteAt(rdata, i) = 0

\* C18: a read whose required width extends past the end of the source
\* (cursor + N > source.length for a fixed-width read or for readBytes(N) or
\* readChars(N) with N > 0, or readString with no zero byte at or after the
\* cursor) fails with an out-of-bounds error and returns no value.
C18_OutOfBounds ==
    /\ (FixedWidthCall /\ rlast.cursor0 + CallWidth > rdata.byteLength) =>
          (rlast.err = "RangeError" /\ rlast.ret = "void")
    /\ (/\ rlast.op \in {"readBytes", "readChars"}
        /\ rlast.arg > 0
        /\ rlast.cursor0 + CallWidth > rdata.byteLength) =>
          (rlast.err = "RangeError" /\ rlast.ret = "void")
    /\ (rlast.op = "readString" /\ ~ZeroFrom(rlast.cursor0)) =>
          (rlast.err = "RangeError" /\ rlast.ret = "void")

\* readString started in the unterminated tail of a source has failed
C18_Witness ==
    /\ rdata = FromBytes(Signed9)
    /\ rlast.op = "readString"
    /\ rlast.cursor0 = 7
    /\ rlast.err = "RangeError"
    /\ rlast.ret = "void"

\* C22: readToEnd() called with the cursor c in 0 .. source.length returns
\* exactly the bytes source[c .. length - 1] (none when c = length) and leaves
\* the cursor at source.length, where hasMoreData is false; the source is one
\* of the buffers given to the constructor, its bytes unchanged.
C22_ReadToEnd ==
    /\ (rlast.op = "readToEnd" /\ rlast.cursor0 >= 0 /\ rlast.cursor0 <= rdata.byteLength) =>
          /\ rlast.err = "none"
          /\ rlast.ret.byteLength = rdata.byteLength - rlast.cursor0
          /\ ToBytes(rlast.ret) =
                 BytesAt(rdata, rlast.cursor0, rdata.byteLength - rlast.cursor0)
          /\ rcursor = rdata.byteLength
          /\ ~hasMoreData(R)
    /\ \E source \in Sources : rdata = FromBytes(source)

\* readToEnd from offset 7 of the sixteen bytes 1 .. 16
C22_Witness ==
    /\ rdata = FromBytes(OneToSixteen)
    /\ rlast.op = "readToEnd"
    /\ rlast.cursor0 = 7
    /\ ToBytes(rlast.ret) = <<8, 9, 10, 11, 12, 13, 14, 15, 16>>
    /\ rcursor = 16

\* the index of the first zero byte of the source at or after index from
FirstZero(from) ==
    CHOOSE z \in from .. (rdata.byteLength - 1) :
        /\ ByteAt(rdata, z) = 0
        /\ \A i \in from .. (z - 1) : ByteAt(rdata, i) # 0

\* C24: readString() started at cursor c with a zero byte at or after c
\* returns the UTF-8 decoding of the bytes from c up to the first zero byte,
\* at index z >= c, and leaves the cursor at z + 1; the bytes after the
\* terminator are not consumed, and a zero byte at c gives the empty string
\* and the cursor c + 1.  Bytes below 128 decode to themselves: the test source
\* gives "tsukuyomichankawaii", the rest of the example's source "orld!".
C24_ReadString ==
    (rlast.op = "readString" /\ rlast.cursor0 >= 0 /\ ZeroFrom(rlast.cursor0)) =>
        LET c     == rlast.cursor0
            z     == FirstZero(c)
            bytes == BytesAt(rdata, c, z - c)
        IN  /\ rlast.err = "none"
            /\ rlast.ret = TextDecode(bytes)
            /\ (\A i \in 1..Len(bytes) : bytes[i] < 128) => rlast.ret = bytes
            /\ rcursor = z + 1
            /\ z = c => (rlast.ret = <<>> /\ rcursor = c + 1)
            /\ (rdata = FromBytes(Tsukuyomi) /\ c = 0) =>
                  (rlast.ret = SubSeq(Tsukuyomi, 1, 19) /\ rcursor = 20)
            /\ (rdata = FromBytes(HelloWorld) /\ c = 8) =>
                  (rlast.ret = <<111, 114, 108, 100, 33>> /\ rcursor = 14)

\* the string read from the middle of a source with bytes after its terminator
C24_Witness ==
    /\ rdata = FromBytes(Signed9)
    /\ rlast.op = "readString"
    /\ rlast.cursor0 = 3
    /\ rlast.err = "none"
    /\ Len(rlast.ret) = 3
    /\ rcursor = 7
    /\ hasMoreData(R)

\* C27: a failing fixed-width read, readBytes(n) or readChars(n), one whose
\* range extends past the end of the source, leaves the cursor where it was
\* before the call: the reader is the reader it was, and every read that fits
\* at that cursor gives the result it would have given without the failed call.
C27_FailedReadKeepsCursor ==
    /\ ((FixedWidthCall \/ rlast.op \in {"readBytes", "readChars"}) /\ rlast.err # "none") =>
          /\ rcursor = rlast.cursor0
          /\ R = RBefore
          /\ Outcome(readUInt8(R)) = Outcome(readUInt8(RBefore))
          /\ Outcome(readUInt16BE(R)) = Outcome(readUInt16BE(RBefore))
          /\ \A n \in ReadLengths : Outcome(readBytes(R, n)) = Outcome(readBytes(RBefore, n))
    /\ (/\ FixedWidthCall \/ rlast.op \in {"readBytes", "readChars"}
        /\ rlast.cursor0 >= 0
        /\ CallWidth > 0
        /\ rlast.cursor0 + CallWidth > rdata.byteLength) =>
          (rlast.err # "none" /\ rcursor = rlast.cursor0)

\* readUInt32LE has failed three bytes before the end of the sixteen bytes
\* 1 .. 16, where readUInt16BE still reads 0x0e0f
C27_Witness ==
    /\ rdata = FromBytes(OneToSixteen)
    /\ rlast.op = "readUInt32LE"
    /\ rlast.cursor0 = 13
    /\ rlast.err = "RangeError"
    /\ rcursor = 13
    /\ readUInt16BE(R).err = "none"
    /\ readUInt16BE(R).ret = Num(3599)

\* C28: readString() terminates: started at a cursor c in 0 .. source.length
\* it makes at most length - c + 1 byte accesses, one per byte it consumes and
\* one more when it fails; with no zero byte at or after c it ends with an
\* out-of-bounds error and the cursor at source.length, the unterminated bytes
\* consumed and hasMoreData false, not with the cursor back at c.
C28_ReadStringTerminates ==
    (rlast.op = "readString" /\ rlast.cursor0 >= 0 /\ rlast.cursor0 <= rdata.byteLength) =>
        LET c        == rlast.cursor0
            accesses == readStringAccesses(RBefore)
        IN  /\ accesses >= 1
            /\ accesses <= rdata.byteLength - c + 1
            /\ accesses = (rcursor - c) + (IF rlast.err = "none" THEN 0 ELSE 1)
            /\ ~ZeroFrom(c) =>
                  /\ rlast.err = "RangeError"
                  /\ accesses = rdata.byteLength - c + 1
                  /\ rcursor = rdata.byteLength
                  /\ ~hasMoreData(R)
                  /\ c < rdata.byteLength => rcursor # c

\* readString has run from index 3 to the end of the sixteen bytes 1 .. 16,
\* none of them zero, in fourteen accesses
C28_Witness ==
    /\ rdata = FromBytes(OneToSixteen)
    /\ rlast.op = "readString"
    /\ rlast.cursor0 = 3
    /\ rlast.err = "RangeError"
    /\ rcursor = 16
    /\ readStringAccesses(RBefore) = 14

\* C13: readFloat32() and readFloat64() decode the bytes at the cursor in
\* big-endian order, with the result and the cursor advance of readFloat32BE
\* and readFloat64BE, while read(kind) without an endianness argument decodes
\* every kind, "f32" and "f64" included, in little-endian order, as the
\* little-endian method of the kind does.
C13_ReaderDefaults ==
    /\ rlast.op = "readFloat32" =>
          /\ RAfter = Outcome(readFloat32BE(RBefore))
          /\ rlast.err = "none" =>
                /\ rlast.ret = RawBytesToNumeric(BytesAt(rdata, rlast.cursor0, 4), FALSE, FALSE)
                /\ rcursor = rlast.cursor0 + 4
    /\ rlast.op = "readFloat64" =>
          /\ RAfter = Outcome(readFloat64BE(RBefore))
          /\ rlast.err = "none" =>
                /\ rlast.ret = RawBytesToNumeric(BytesAt(rdata, rlast.cursor0, 8), FALSE, FALSE)
                /\ rcursor = rlast.cursor0 + 8
    /\ (rlast.op = "read" /\ rlast.arg.endian = "undefined" /\ rlast.arg.kind \in Kinds) =>
          LET kind == rlast.arg.kind
          IN  /\ RAfter = Outcome(LittleEndianRead(RBefore, kind))
              /\ rlast.err = "none" =>
                    /\ rlast.ret = RawBytesToNumeric(BytesAt(rdata, rlast.cursor0, KindWidth(kind)),
                                                     KindSigned(kind), TRUE)
                    /\ rcursor = rlast.cursor0 + KindWidth(kind)
    /\ (rdata = FromBytes(Float32Test) /\ rlast.cursor0 = 0) =>
          /\ rlast.op = "readFloat32" => rlast.ret = Big(FALSE, 0, 0, 5146, 2570)
          /\ (rlast.op = "read" /\ rlast.arg = [kind |-> "f32", endian |-> "undefined"]) =>
                rlast.ret = Big(FALSE, 0, 0, 2570, 6676)

\* read("f32") over the bytes 14 1a 0a 0a, which readFloat32 decodes otherwise
C13_Witness ==
    /\ rdata = FromBytes(Float32Test)
    /\ rlast.op = "read"
    /\ rlast.arg = [kind |-> "f32", endian |-> "undefined"]
    /\ rlast.cursor0 = 0
    /\ rcursor = 4
    /\ rlast.ret = Big(FALSE, 0, 0, 2570, 6676)
    /\ readFloat32(RBefore).ret = Big(FALSE, 0, 0, 5146, 2570)

----------------------------------------------------------------------------
(* The usage example of the writer, checked under SpecExample *)

\* C14 as stated: on a fresh writer writeUInt8(1), writeUInt16BE(0x0203),
\* writeUInt32LE(0x04050607), writeUInt64BE(0x08090a0b0c0d0e0f) and then
\* toUint8Array() yield the bytes 1, 2, 3, 4, 5, 6, 7, 8, 9, 10, 11, 12, 13, 14.
C14_ReadmeBytes ==
    TraceOps = <<"new", "writeUInt8", "writeUInt16BE", "writeUInt32LE", "writeUInt64BE",
                 "toUint8Array">>
        => ToBytes(exported) = [i \in 1..14 |-> i]

----------------------------------------------------------------------------
(* The generic write and read, checked under SpecDispatch *)

\* C19: read(kind, endian) and write(value, kind, endian) fail with the
\* unrecognized-kind error for every kind tag outside u8, i8, u16, i16, u32,
\* i32, f32, f64 (the 64-bit integer tags included) and for no tag inside;
\* the failed write leaves the cursor, the high-water mark, the capacity and
\* the buffer contents unchanged, the failed read leaves the cursor unchanged
\* and returns nothing.
C19_UnknownKind ==
    /\ last.op = "write" =>
          IF last.arg.kind \in Kinds
          THEN last.err = "none"
          ELSE /\ last.err = "Error"
               /\ cursor = last.cursor0
               /\ maxCursor = last.maxCursor0
               /\ getCapacity(W) = last.capacity0
               /\ data = last.data0
    /\ rlast.op = "read" =>
          IF rlast.arg.kind \in Kinds
          THEN rlast.err # "Error"
          ELSE /\ rlast.err = "Error"
               /\ rlast.ret = "void"
               /\ rcursor = rlast.cursor0

\* write(1, "u64") has failed on a writer that holds a written byte
C19_Witness ==
    /\ last.op = "write"
    /\ last.arg.kind = "u64"
    /\ last.err = "Error"
    /\ cursor = 1
    /\ maxCursor = 1
    /\ data.nz # EmptyFcn

====
